---- MODULE Spec2Model ----
(***************************************************************************)
(* Model of the GPIO service of src/main.py: the line registry and the     *)
(* claimed-line table (pin_mapping, reverse_pin_mapping, line_requests),   *)
(* the configuration validator, startup / hot reload / shutdown, the edge  *)
(* monitor with its bounded event queue, the stats collector with its      *)
(* bounded history, the task supervisor and the pin endpoints.             *)
(*                                                                         *)
(* The service runs on one asyncio event loop: a handler or a worker runs  *)
(* without interruption from one await to the next.  The variable pc is    *)
(* the position of the one piece of synchronous code that is in progress   *)
(* (startup, update_config, nothing); while pc # "idle" no other code of   *)
(* the process runs, exactly as on the event loop.                         *)
(***************************************************************************)
EXTENDS Integers, Sequences, FiniteSets, TLC

\* ------------------------------------------------------------------ bounds
\* capacity of event_queue (1000 in the source, scaled down)
EVENT_QUEUE_MAX_SIZE == 2
\* capacity of stats_history (360 in the source, scaled down)
STATS_HISTORY_MAX_POINTS == 2
\* edge events the kernel delivers in one run
MaxEvents == 3
\* samples the stats collector takes in one run
MaxSamples == 3
\* update_config requests that pass validation in one run
MaxReloads == 1
\* errors that escape the per-line handlers of a worker in one run
MaxCrashes == 1
\* edge events the kernel delivers in a run of SpecSweep
SweepEvents == 1

\* ------------------------------------------------------- JSON values
\* A JSON value as the code sees it: its Python type and its content.
\* Absent is a key that the JSON object does not have (dict.get gives None).
I(n) == [ty |-> "int", i |-> n, s |-> ""]
S(x) == [ty |-> "str", i |-> 0, s |-> x]
Absent == [ty |-> "absent", i |-> 0, s |-> ""]
\* a value that is neither an integer nor a string (a float, a list, null)
Other == [ty |-> "other", i |-> 0, s |-> ""]

Nums == {1, 2}
\* a pin number no document uses
UnknownPin == 9
Chips == {0}
Lines == {5, 6}

Entry(n, c, l, d, b) ==
    [num |-> I(n), chip |-> I(c), line |-> I(l), direction |-> S(d), bias |-> S(b)]

\* a JSON object without a "pins" list
NoPinsDoc == [haspins |-> FALSE, pins |-> <<>>]
Doc(ps) == [haspins |-> TRUE, pins |-> ps]

\* the states of a file that holds no document
NoFile == [file |-> "missing"]
Corrupt == [file |-> "corrupt"]

\* the shipped template gpio_config.default.json
DefaultDoc == Doc(<<Entry(1, 0, 5, "output", "none"), Entry(2, 0, 6, "input", "pull-up")>>)

\* documents that may be on disk when the process starts; nothing checks
\* them, so one of them has two pins on one address
DiskDocs ==
    { Doc(<<>>),
      Doc(<<Entry(1, 0, 5, "output", "none")>>),
      DefaultDoc,
      Doc(<<Entry(2, 0, 6, "disabled", "none"), Entry(1, 0, 5, "output", "none")>>),
      Doc(<<Entry(1, 0, 5, "output", "none"), Entry(2, 0, 5, "output", "none")>>) }

\* documents a client may POST to /config/update: valid ones, then one
\* with two pins on one address, one with a pin number twice, one without a
\* pins list, one whose direction is no string, one in upper case
PostDocs ==
    { Doc(<<>>),
      Doc(<<Entry(1, 0, 5, "output", "none")>>),
      DefaultDoc,
      Doc(<<Entry(2, 0, 6, "disabled", "none"), Entry(1, 0, 5, "output", "none")>>),
      Doc(<<Entry(1, 0, 5, "output", "none"), Entry(2, 0, 5, "output", "none")>>),
      Doc(<<Entry(2, 0, 6, "input", "pull-up"), Entry(2, 0, 5, "output", "none")>>),
      NoPinsDoc,
      Doc(<<[Entry(1, 0, 5, "output", "none") EXCEPT !.direction = Other]>>),
      Doc(<<Entry(2, 0, 5, "OUTPUT", "Pull-Up")>>) }

\* str.lower() on the strings of the model
Lower(s) ==
    CASE s = "OUTPUT" -> "output"
      [] s = "Pull-Up" -> "pull-up"
      [] OTHER -> s

\* --------------------------------------------------------- validator
valid_directions == {"input", "output", "disabled"}
valid_biases == {"none", "pull-up", "pull-down", "disabled"}

Ok == [ok |-> TRUE, exc |-> "", kind |-> "", pin |-> Absent, chip |-> Absent,
       line |-> Absent, text |-> ""]
Raise(exc, kind, pin, chip, line, text) ==
    [ok |-> FALSE, exc |-> exc, kind |-> kind, pin |-> pin, chip |-> chip,
     line |-> line, text |-> text]

RequiredFields == <<"num", "chip", "line", "direction", "bias">>

\* the first required field the entry lacks, "" when it has them all
FirstMissing(pin) ==
    IF \E k \in 1..Len(RequiredFields) : pin[RequiredFields[k]] = Absent
    THEN RequiredFields[CHOOSE k \in 1..Len(RequiredFields) :
            /\ pin[RequiredFields[k]] = Absent
            /\ \A j \in 1..(k - 1) : pin[RequiredFields[j]] # Absent]
    ELSE ""

\* a validator that lets a disabled entry share an address
ValidatePinSkipsDisabled(pin, seen_nums, seen_hardware) ==
    IF FirstMissing(pin) # ""
    THEN Raise("ValueError", "missing-field", pin.num, Absent, Absent, FirstMissing(pin))
    ELSE IF pin.num.ty # "int" \/ pin.chip.ty # "int" \/ pin.line.ty # "int"
    THEN Raise("ValueError", "not-integers", pin.num, Absent, Absent, "")
    ELSE IF pin.num \in seen_nums
    THEN Raise("ValueError", "duplicate-num", pin.num, Absent, Absent, "")
    ELSE IF <<pin.chip, pin.line>> \in seen_hardware /\ pin.direction # S("disabled")
    THEN Raise("ValueError", "duplicate-hardware", Absent, pin.chip, pin.line, "")
    ELSE IF pin.direction.ty # "str"
    THEN Raise("AttributeError", "no-lower", Absent, Absent, Absent, "")
    ELSE IF Lower(pin.direction.s) \notin valid_directions
    THEN Raise("ValueError", "invalid-direction", pin.num, Absent, Absent, pin.direction.s)
    ELSE IF pin.bias.ty # "str"
    THEN Raise("AttributeError", "no-lower", Absent, Absent, Absent, "")
    ELSE IF Lower(pin.bias.s) \notin valid_biases
    THEN Raise("ValueError", "invalid-bias", pin.num, Absent, Absent, pin.bias.s)
    ELSE Ok

\* the checks of one entry, in the order of the loop body
ValidatePin(pin, seen_nums, seen_hardware) ==
    IF FirstMissing(pin) # ""
    THEN Raise("ValueError", "missing-field", pin.num, Absent, Absent, FirstMissing(pin))
    ELSE IF pin.num.ty # "int" \/ pin.chip.ty # "int" \/ pin.line.ty # "int"
    THEN Raise("ValueError", "not-integers", pin.num, Absent, Absent, "")
    ELSE IF pin.num \in seen_nums
    THEN Raise("ValueError", "duplicate-num", pin.num, Absent, Absent, "")
    ELSE IF <<pin.chip, pin.line>> \in seen_hardware
    THEN Raise("ValueError", "duplicate-hardware", Absent, pin.chip, pin.line, "")
    ELSE IF pin.direction.ty # "str"
    THEN Raise("AttributeError", "no-lower", Absent, Absent, Absent, "")
    ELSE IF Lower(pin.direction.s) \notin valid_directions
    THEN Raise("ValueError", "invalid-direction", pin.num, Absent, Absent, pin.direction.s)
    ELSE IF pin.bias.ty # "str"
    THEN Raise("AttributeError", "no-lower", Absent, Absent, Absent, "")
    ELSE IF Lower(pin.bias.s) \notin valid_biases
    THEN Raise("ValueError", "invalid-bias", pin.num, Absent, Absent, pin.bias.s)
    ELSE Ok

\* a validator that forgets the addresses it has seen
RECURSIVE ValidateFromForgetsHardware(_, _, _, _)
ValidateFromForgetsHardware(pins, k, seen_nums, seen_hardware) ==
    IF k > Len(pins) THEN Ok
    ELSE LET r == ValidatePin(pins[k], seen_nums, seen_hardware) IN
         IF ~r.ok THEN r
         ELSE ValidateFromForgetsHardware(pins, k + 1, seen_nums \cup {pins[k].num},
                                          seen_hardware)

\* a validator that checks the fields and types of every entry before any
\* other check
RECURSIVE ValidateFromFieldsFirst(_, _, _, _)
ValidateFromFieldsFirst(pins, k, seen_nums, seen_hardware) ==
    LET bad == {j \in k..Len(pins) :
                   ValidatePin(pins[j], {}, {}).kind \in {"missing-field", "not-integers"}}
    IN  IF bad # {}
        THEN ValidatePin(pins[CHOOSE j \in bad : \A i \in bad : j <= i], {}, {})
        ELSE IF k > Len(pins) THEN Ok
        ELSE LET r == ValidatePin(pins[k], seen_nums, seen_hardware) IN
             IF ~r.ok THEN r
             ELSE ValidateFromFieldsFirst(pins, k + 1, seen_nums \cup {pins[k].num},
                                          seen_hardware \cup {<<pins[k].chip, pins[k].line>>})

\* the loop of lines 180-204 from entry k on
RECURSIVE ValidateFrom(_, _, _, _)
ValidateFrom(pins, k, seen_nums, seen_hardware) ==
    IF k > Len(pins) THEN Ok
    ELSE LET r == ValidatePin(pins[k], seen_nums, seen_hardware) IN
         IF ~r.ok THEN r
         ELSE ValidateFrom(pins, k + 1, seen_nums \cup {pins[k].num},
                           seen_hardware \cup {<<pins[k].chip, pins[k].line>>})

validate_gpio_config(config) ==
    IF ~config.haspins
    THEN Raise("ValueError", "no-pins-list", Absent, Absent, Absent, "")
    ELSE ValidateFrom(config.pins, 1, {}, {})


\* ------------------------------------------------------------- state
VARIABLES
    config_file,          \* gpio_config.json on disk: a document, NoFile or Corrupt
    default_file,         \* gpio_config.default.json on disk
    line_requests,        \* dict (chip_path, line_offset) -> request, in insertion order
    pin_mapping,          \* dict pin_num -> (chip_path, line_offset)
    reverse_pin_mapping,  \* dict (chip_path, line_offset) -> pin_num
    reqs,                 \* every gpiod.LineRequest the kernel has granted, by number
    interrupt_task,       \* handle of the edge monitor task, NoTask for None
    stats_task,           \* handle of the stats collector task
    task_monitor_task,    \* handle of the supervisor task
    tasks,                \* every asyncio task created, by number
    event_queue,          \* asyncio.Queue(maxsize=EVENT_QUEUE_MAX_SIZE)
    stats_history,        \* deque(maxlen=STATS_HISTORY_MAX_POINTS)
    pc,                   \* position of the synchronous code in progress
    init_pins,            \* init_gpios: the pins list being walked
    init_i,               \* init_gpios: index of the next entry
    init_ret,             \* init_gpios: who called it ("boot" or "reload")
    pending,              \* update_config: the document being applied
    resp,                 \* what the handler that just ran returned to the transport
    entry,                \* update_config: what was observable when it was entered
    accepted,             \* timestamps of the events put_nowait accepted, in order
    drained,              \* timestamps of the events /events returned, in order
    drop_warnings,        \* "Event queue full" warnings logged
    clock,                \* edge events the kernel has delivered
    sampled,              \* samples the collector has taken
    reloads,              \* update_config requests that passed validation
    restarts,             \* tasks the supervisor has relaunched
    crashes,              \* errors that escaped the per-line handlers of a worker
    checked,              \* the supervisor has checked and no task has ended since
    swept,                \* the requests the latest sweep of an edge monitor called
                          \* wait_edge_events on, in order, and whether the call raised
    logged,               \* what the latest resumption of a background task logged
                          \* about a worker: which worker, and the cause or error
    env                   \* what the environment does in this run: the documents
                          \* clients post and how many events, samples, reloads
                          \* and worker errors there are

vars == <<config_file, default_file, line_requests, pin_mapping, reverse_pin_mapping,
          reqs, interrupt_task, stats_task, task_monitor_task, tasks, event_queue,
          stats_history, pc, init_pins, init_i, init_ret, pending, resp, entry,
          accepted, drained, drop_warnings, clock, sampled, reloads, restarts, crashes, checked, env, logged, swept>>

diskVars == <<config_file, default_file>>
registryVars == <<line_requests, pin_mapping, reverse_pin_mapping>>
taskVars == <<interrupt_task, stats_task, task_monitor_task, tasks>>
initVars == <<init_pins, init_i, init_ret>>
queueVars == <<event_queue, accepted, drained, drop_warnings, clock>>
statsVars == <<stats_history, sampled>>

NoTask == 0
NoResp == [op |-> "none"]
NoDoc == [file |-> "none"]
NoEntry == [none |-> TRUE]

\* ------------------------------------------------------------- dicts
\* an insertion-ordered dict as a sequence of [key, req] items
Keys(d) == {d[k].key : k \in 1..Len(d)}
Get(d, key) == d[CHOOSE k \in 1..Len(d) : d[k].key = key].req
Put(d, key, req) ==
    IF key \in Keys(d)
    THEN [k \in 1..Len(d) |-> IF d[k].key = key THEN [key |-> key, req |-> req] ELSE d[k]]
    ELSE Append(d, [key |-> key, req |-> req])

\* d[key] = value on a dict kept as a function
Set(d, key, value) == [x \in DOMAIN d \cup {key} |-> IF x = key THEN value ELSE d[x]]
Empty == [x \in {} |-> 0]

\* ---------------------------------------------------- hardware provider
\* f"/dev/gpiochip{chip_num}": the text of the value after the prefix
FormatValue(v) ==
    CASE v.ty = "int" -> v
      [] v.ty = "str" -> IF v.s = "0" THEN I(0) ELSE v
      [] OTHER -> S("None")
ChipPath(chip_num) == <<"/dev/gpiochip", FormatValue(chip_num)>>

Live(h) == reqs[h].released = 0
Held(key) == \E h \in 1..Len(reqs) : Live(h) /\ reqs[h].key = key
\* the lines the board has
Exists(key) ==
    \E c \in Chips, l \in Lines : key = <<ChipPath(I(c)), I(l)>>
\* gpiod.request_lines can succeed: the line exists and nobody holds it
Claimable(key) == Exists(key) /\ ~Held(key)

\* release_gpios that forgets to call release()
ReleaseNone(rs, hs) == rs

\* LineRequest.release() on every given request
ReleaseAll(rs, hs) ==
    [h \in 1..Len(rs) |->
        IF h \in hs THEN [rs[h] EXCEPT !.released = @ + 1] ELSE rs[h]]

\* --------------------------------------------------------------- tasks
NewTask(kind) == [kind |-> kind, at |-> "new", cancel |-> FALSE, result |-> "none"]
Done(t) == tasks[t].at = "done"
\* a cancel() that leaves the supervisor alone
CancelWorkersOnly(ts, hs) ==
    [t \in 1..Len(ts) |->
        IF t \in hs /\ ts[t].at # "done" /\ ts[t].kind # "health"
        THEN [ts[t] EXCEPT !.cancel = TRUE] ELSE ts[t]]

\* a cancel() that is forgotten
CancelNothing(ts, hs) == ts

\* Task.cancel(): a request, honoured when the task next runs
Cancel(ts, hs) ==
    [t \in 1..Len(ts) |->
        IF t \in hs /\ ts[t].at # "done" THEN [ts[t] EXCEPT !.cancel = TRUE] ELSE ts[t]]

\* ---------------------------------------------------------- init_gpios
\* lines 245-258 and the head of the loop: which pins list init_gpios walks,
\* and what ensure_config_exists leaves on disk
ConfigAfterEnsure ==
    IF config_file = NoFile /\ default_file # NoFile THEN default_file ELSE config_file
\* an init_gpios that falls back on the pins of the shipped template when
\* it finds no document
LoadedPinsFallBack(f) ==
    IF f = NoFile \/ f = Corrupt THEN DefaultDoc.pins
    ELSE IF f.haspins THEN f.pins ELSE <<>>

\* json.load and config.get("pins", []): nothing to walk when there is no document
LoadedPins(f) ==
    IF f = NoFile \/ f = Corrupt THEN <<>>
    ELSE IF f.haspins THEN f.pins ELSE <<>>

BeginInit(ret) ==
    /\ config_file' = ConfigAfterEnsure
    /\ init_pins' = LoadedPins(ConfigAfterEnsure)
    /\ init_i' = 1
    /\ init_ret' = ret
    /\ pc' = "init"


\* the state once the module-level code has run (lines 39-43, 81-86), with
\* one of the files `disk` as gpio_config.json, in the environment e
InitWith(disk, e) ==
    /\ env = e
    /\ logged = <<>>
    /\ swept = <<>>
    /\ config_file \in disk
    /\ default_file \in (IF config_file = NoFile THEN {NoFile, DefaultDoc} ELSE {DefaultDoc})
    /\ line_requests = <<>>
    /\ pin_mapping = Empty
    /\ reverse_pin_mapping = Empty
    /\ reqs = <<>>
    /\ interrupt_task = NoTask
    /\ stats_task = NoTask
    /\ task_monitor_task = NoTask
    /\ tasks = <<>>
    /\ event_queue = <<>>
    /\ stats_history = <<>>
    /\ pc = "boot"
    /\ init_pins = <<>>
    /\ init_i = 1
    /\ init_ret = "boot"
    /\ pending = NoDoc
    /\ resp = NoResp
    /\ entry = NoEntry
    /\ accepted = <<>>
    /\ drained = <<>>
    /\ drop_warnings = 0
    /\ clock = 0
    /\ sampled = 0
    /\ reloads = 0
    /\ restarts = 0
    /\ crashes = 0
    /\ checked = FALSE

\* lifespan, line 354: startup calls init_gpios
Startup ==
    /\ pc = "boot"
    /\ BeginInit("boot")
    /\ UNCHANGED <<default_file, registryVars, reqs, taskVars, event_queue, stats_history,
                   pending, entry, resp, accepted, drained, drop_warnings, clock, sampled,
                   reloads, restarts, crashes, checked, env, logged, swept>>

\* an init_gpios without the test for "disabled": what is no output is an
\* input
DirectionStrNoDisabled(pin_cfg) ==
    IF pin_cfg.direction = Absent THEN "output"
    ELSE IF Lower(pin_cfg.direction.s) = "output" THEN "output" ELSE "input"

\* pin_cfg.get("direction", "output").lower()
DirectionStr(pin_cfg) ==
    IF pin_cfg.direction = Absent THEN "output" ELSE Lower(pin_cfg.direction.s)

PinKey(pin_cfg) == <<ChipPath(pin_cfg.chip), pin_cfg.line>>

\* a request that sets no output value: the line keeps the level the last
\* request on it left
NewRequestKeepsLevel(key, direction_str, pin_num) ==
    LET before == {h \in 1..Len(reqs) : reqs[h].key = key} IN
    [key |-> key,
     dir |-> IF direction_str = "output" THEN "output" ELSE "input",
     val |-> IF before = {} THEN 0
             ELSE reqs[CHOOSE h \in before : \A g \in before : g <= h].val,
     released |-> 0,
     consumer |-> pin_num]

\* the request a successful gpiod.request_lines returns: an output starts
\* INACTIVE; the consumer label names the pin it was claimed for
NewRequest(key, direction_str, pin_num) ==
    [key |-> key,
     dir |-> IF direction_str = "output" THEN "output" ELSE "input",
     val |-> 0,
     released |-> 0,
     consumer |-> pin_num]

\* where init_gpios records the pin in the registry (lines 272-273)
RegisterAt(pin_mapping_, pin_cfg) == Set(pin_mapping_, pin_cfg.num, PinKey(pin_cfg))

\* an init_gpios that gives up at the first claim that fails
InitPinAbortsOnFailure(granted) ==
    /\ pc = "init"
    /\ init_i <= Len(init_pins)
    /\ LET pin_cfg == init_pins[init_i]
           direction_str == DirectionStr(pin_cfg)
           key == PinKey(pin_cfg)
       IN  IF direction_str = "disabled"
           THEN /\ ~granted
                /\ init_i' = init_i + 1
                /\ UNCHANGED <<registryVars, reqs>>
           ELSE /\ granted => Claimable(key)
                /\ pin_mapping' = RegisterAt(pin_mapping, pin_cfg)
                /\ reverse_pin_mapping' = Set(reverse_pin_mapping, key, pin_cfg.num)
                /\ IF granted
                   THEN /\ reqs' = Append(reqs, NewRequest(key, direction_str, pin_cfg.num))
                        /\ line_requests' = Put(line_requests, key, Len(reqs) + 1)
                        /\ init_i' = init_i + 1
                   ELSE /\ init_i' = Len(init_pins) + 1
                        /\ UNCHANGED <<line_requests, reqs>>
    /\ UNCHANGED <<diskVars, taskVars, event_queue, stats_history, pc, init_pins, init_ret,
                   pending, entry, resp, accepted, drained, drop_warnings, clock, sampled,
                   reloads, restarts, crashes, checked, env, logged, swept>>

\* one turn of the loop of init_gpios (lines 260-308); granted is what
\* gpiod.request_lines does for this entry
InitPin(granted) ==
    /\ pc = "init"
    /\ init_i <= Len(init_pins)
    /\ LET pin_cfg == init_pins[init_i]
           direction_str == DirectionStr(pin_cfg)
           key == PinKey(pin_cfg)
       IN  IF direction_str = "disabled"
           THEN /\ ~granted
                /\ UNCHANGED <<registryVars, reqs>>
           ELSE /\ granted => Claimable(key)
                /\ pin_mapping' = RegisterAt(pin_mapping, pin_cfg)
                /\ reverse_pin_mapping' = Set(reverse_pin_mapping, key, pin_cfg.num)
                /\ IF granted
                   THEN /\ reqs' = Append(reqs, NewRequest(key, direction_str, pin_cfg.num))
                        /\ line_requests' = Put(line_requests, key, Len(reqs) + 1)
                   ELSE UNCHANGED <<line_requests, reqs>>
    /\ init_i' = init_i + 1
    /\ UNCHANGED <<diskVars, taskVars, event_queue, stats_history, pc, init_pins, init_ret,
                   pending, entry, resp, accepted, drained, drop_warnings, clock, sampled,
                   reloads, restarts, crashes, checked, env, logged, swept>>

AtInitEnd(ret) == pc = "init" /\ init_i > Len(init_pins) /\ init_ret = ret

\* lifespan, lines 355-359: the three background tasks are created
StartTasks ==
    /\ AtInitEnd("boot")
    /\ tasks' = tasks \o <<NewTask("interrupt"), NewTask("stats"), NewTask("health")>>
    /\ interrupt_task' = Len(tasks) + 1
    /\ stats_task' = Len(tasks) + 2
    /\ task_monitor_task' = Len(tasks) + 3
    /\ pc' = "idle"
    /\ UNCHANGED <<diskVars, registryVars, reqs, event_queue, stats_history, initVars,
                   pending, entry, resp, accepted, drained, drop_warnings, clock, sampled,
                   reloads, restarts, crashes, checked, env, logged, swept>>

\* the event loop is free to run a handler or a worker
Serving == pc = "idle" /\ resp = NoResp

\* the transport sends what the handler returned
Respond ==
    /\ resp # NoResp
    /\ resp' = NoResp
    /\ UNCHANGED <<diskVars, registryVars, reqs, taskVars, event_queue, stats_history, pc,
                   initVars, pending, entry, accepted, drained, drop_warnings, clock, sampled,
                   reloads, restarts, crashes, checked, env, logged, swept>>

\* HTTPException(status_code, detail)
HTTPError(op, status, detail) == [op |-> op, status |-> status, detail |-> detail]

\* ------------------------------------------------------ read endpoints
\* "not mapping or mapping not in line_requests"
NotActive(pin_num) ==
    \/ pin_num \notin DOMAIN pin_mapping
    \/ pin_mapping[pin_num] \notin Keys(line_requests)

RequestOf(pin_num) == Get(line_requests, pin_mapping[pin_num])

\* LineRequest.get_value: the level of the line, an error once released
ReadValue(h) == IF Live(h) THEN reqs[h].val ELSE -1

\* get_config, lines 1138-1147
get_config ==
    IF config_file = NoFile THEN HTTPError("get_config", 404, "Config file missing")
    ELSE IF config_file = Corrupt THEN HTTPError("get_config", 500, "JSONDecodeError")
    ELSE [op |-> "get_config", status |-> 200, config |-> config_file]

\* get_status, lines 553-574: the entries it lists, then one item per entry
Listed(pin_cfg) == pin_cfg.direction # S("disabled")
StatusItem(pin_cfg) ==
    [pin_cfg |-> pin_cfg,
     active |-> ~NotActive(pin_cfg.num),
     current_state |-> IF NotActive(pin_cfg.num) THEN -1
                       ELSE ReadValue(RequestOf(pin_cfg.num))]

\* get_status, lines 546-575
get_status ==
    IF config_file = NoFile THEN HTTPError("get_status", 404, "Config missing")
    ELSE IF config_file = Corrupt THEN HTTPError("get_status", 500, "JSONDecodeError")
    ELSE IF ~config_file.haspins THEN HTTPError("get_status", 500, "KeyError")
    ELSE LET listed == SelectSeq(config_file.pins, Listed) IN
         IF \E k \in 1..Len(listed) : listed[k].num = Absent
         THEN HTTPError("get_status", 500, "KeyError")
         ELSE [op |-> "get_status", status |-> 200,
               pins |-> [k \in 1..Len(listed) |-> StatusItem(listed[k])]]

\* the gpio_status part of health, lines 534-538
health ==
    [initialized |-> Len(line_requests) > 0,
     claimed_pins_count |-> Len(line_requests),
     interrupt_monitor_running |-> interrupt_task # NoTask /\ ~Done(interrupt_task)]

\* everything a client, the kernel or a worker can tell the state of the
\* lines by
Observable ==
    [config |-> get_config, status |-> get_status, line_requests |-> line_requests,
     pin_mapping |-> pin_mapping, reverse_pin_mapping |-> reverse_pin_mapping,
     reqs |-> reqs, interrupt_task |-> interrupt_task, tasks |-> tasks]

\* update_config that writes the file before it validates the document
UpdateStepsWriteFirst ==
    <<"uc_write", "uc_validate", "uc_release", "uc_init", "uc_restart">>
\* update_config that calls init_gpios before release_gpios
UpdateStepsInitFirst ==
    <<"uc_validate", "uc_write", "uc_init", "uc_release", "uc_restart">>

\* update_config that releases the lines before it writes the file
UpdateStepsReleaseFirst ==
    <<"uc_validate", "uc_release", "uc_write", "uc_init", "uc_restart">>

\* -------------------------------------------------------- update_config
\* the statements of update_config in the order of the source: validate
\* (line 1155), write the file (1160-1161), release_gpios (1166),
\* init_gpios (1167), restart the monitor (1171)
UpdateSteps == <<"uc_validate", "uc_write", "uc_release", "uc_init", "uc_restart">>

\* the statement after `step`; "idle" when the handler returns
After(step) ==
    LET k == CHOOSE j \in 1..Len(UpdateSteps) : UpdateSteps[j] = step IN
    IF k = Len(UpdateSteps) THEN "idle" ELSE UpdateSteps[k + 1]

\* POST /config/update is dispatched to update_config (line 1150)
update_config(config) ==
    /\ Serving
    /\ reloads < env.reloads
    /\ pending' = config
    /\ entry' = Observable
    /\ pc' = UpdateSteps[1]
    /\ UNCHANGED <<diskVars, registryVars, reqs, taskVars, event_queue, stats_history,
                   initVars, resp, accepted, drained, drop_warnings, clock, sampled,
                   reloads, restarts, crashes, checked, env, logged, swept>>

\* lines 1152-1157 and 1174-1176: the document is validated; the
\* HTTPException(400) raised for a ValueError is caught by the outer
\* "except Exception" and raised again as a 500 whose detail is its text
UC_Validate ==
    /\ pc = "uc_validate"
    /\ LET v == validate_gpio_config(pending) IN
       IF v.ok
       THEN /\ pc' = After("uc_validate")
            /\ reloads' = reloads + 1
            /\ UNCHANGED <<pending, resp, entry>>
       ELSE /\ resp' = HTTPError("update_config", 500,
                         [inner |-> IF v.exc = "ValueError" THEN 400 ELSE 0, error |-> v])
            /\ pc' = "idle"
            /\ pending' = NoDoc
            /\ entry' = NoEntry
            /\ reloads' = reloads
    /\ UNCHANGED <<diskVars, registryVars, reqs, taskVars, event_queue, stats_history,
                   initVars, accepted, drained, drop_warnings, clock, sampled, restarts,
                   crashes, checked, env, logged, swept>>

\* lines 1160-1161: open(CONFIG_FILE, "w") truncates the file, json.dump
\* writes it; either can fail with an OSError, which ends the handler
UC_Write(io) ==
    /\ pc = "uc_write"
    /\ config_file' = CASE io = "ok" -> pending
                        [] io = "open-fails" -> config_file
                        [] io = "dump-fails" -> Corrupt
    /\ IF io = "ok"
       THEN /\ pc' = After("uc_write")
            /\ UNCHANGED <<resp, pending, entry>>
       ELSE /\ pc' = "idle"
            /\ resp' = HTTPError("update_config", 500,
                         [inner |-> 0,
                          error |-> Raise("OSError", io, Absent, Absent, Absent, "")])
            /\ pending' = NoDoc
            /\ entry' = NoEntry
    /\ UNCHANGED <<default_file, registryVars, reqs, taskVars, event_queue, stats_history,
                   initVars, accepted, drained, drop_warnings, clock, sampled,
                   reloads, restarts, crashes, checked, env, logged, swept>>

LiveRequests == {line_requests[k].req : k \in 1..Len(line_requests)}

\* a release_gpios that empties the event queue along with the tables
UC_ReleaseDropsEvents ==
    /\ pc = "uc_release"
    /\ tasks' = Cancel(tasks, {interrupt_task})
    /\ reqs' = ReleaseAll(reqs, LiveRequests)
    /\ line_requests' = <<>>
    /\ pin_mapping' = Empty
    /\ reverse_pin_mapping' = Empty
    /\ event_queue' = <<>>
    /\ pc' = After("uc_release")
    /\ UNCHANGED <<diskVars, interrupt_task, stats_task, task_monitor_task,
                   stats_history, initVars, pending, resp, entry, accepted, drained,
                   drop_warnings, clock, sampled, reloads, restarts, crashes, checked, env, logged, swept>>

\* release_gpios, lines 208-224
UC_Release ==
    /\ pc = "uc_release"
    /\ tasks' = Cancel(tasks, {interrupt_task})
    /\ reqs' = ReleaseAll(reqs, LiveRequests)
    /\ line_requests' = <<>>
    /\ pin_mapping' = Empty
    /\ reverse_pin_mapping' = Empty
    /\ pc' = After("uc_release")
    /\ UNCHANGED <<diskVars, interrupt_task, stats_task, task_monitor_task, event_queue,
                   stats_history, initVars, pending, resp, entry, accepted, drained,
                   drop_warnings, clock, sampled, reloads, restarts, crashes, checked, env, logged, swept>>

\* line 1167: init_gpios is called
UC_Init ==
    /\ pc = "uc_init"
    /\ BeginInit("reload")
    /\ UNCHANGED <<default_file, registryVars, reqs, taskVars, event_queue, stats_history,
                   pending, resp, entry, accepted, drained, drop_warnings, clock, sampled,
                   reloads, restarts, crashes, checked, env, logged, swept>>

\* init_gpios returns to update_config
UC_InitReturn ==
    /\ AtInitEnd("reload")
    /\ pc' = After("uc_init")
    /\ UNCHANGED <<diskVars, registryVars, reqs, taskVars, event_queue, stats_history,
                   initVars, pending, resp, entry, accepted, drained, drop_warnings, clock,
                   sampled, reloads, restarts, crashes, checked, env, logged, swept>>

\* lines 1169-1173: a new edge monitor task replaces the handle
UC_Restart ==
    /\ pc = "uc_restart"
    /\ tasks' = Append(tasks, NewTask("interrupt"))
    /\ interrupt_task' = Len(tasks) + 1
    /\ IF After("uc_restart") = "idle"
       THEN /\ resp' = [op |-> "update_config", status |-> 200]
            /\ pending' = NoDoc
            /\ entry' = NoEntry
       ELSE UNCHANGED <<resp, pending, entry>>
    /\ pc' = After("uc_restart")
    /\ UNCHANGED <<diskVars, registryVars, reqs, stats_task, task_monitor_task, event_queue,
                   stats_history, initVars, accepted, drained, drop_warnings, clock,
                   sampled, reloads, restarts, crashes, checked, env, logged, swept>>

\* a queue that takes one item more than maxsize
QueueFullOffByOne(q) == Len(q) > EVENT_QUEUE_MAX_SIZE

\* ------------------------------------------------------- edge monitor
\* asyncio.Queue.put_nowait: QueueFull when the queue holds maxsize items
QueueFull(q) == Len(q) >= EVENT_QUEUE_MAX_SIZE

\* a monitor that drops the event of a full queue without the warning
PutEventSilent(st, key, kind) ==
    LET pin_num == IF key \in DOMAIN reverse_pin_mapping
                   THEN reverse_pin_mapping[key] ELSE S("unknown")
        ts == st.clock + 1
        ev == [pin |-> pin_num, event |-> kind, timestamp |-> S(ToString(ts))]
    IN  IF QueueFull(st.q)
        THEN [st EXCEPT !.clock = ts]
        ELSE [st EXCEPT !.clock = ts, !.q = Append(@, ev),
                        !.accepted = Append(@, ev.timestamp)]

\* lines 139-151: the event is tagged with its pin, its timestamp is
\* written as text (str(event.timestamp_ns)) and it is queued, or dropped
\* with a warning when the queue is full
PutEvent(st, key, kind) ==
    LET pin_num == IF key \in DOMAIN reverse_pin_mapping
                   THEN reverse_pin_mapping[key] ELSE S("unknown")
        ts == st.clock + 1
        ev == [pin |-> pin_num, event |-> kind, timestamp |-> S(ToString(ts))]
    IN  IF QueueFull(st.q)
        THEN [st EXCEPT !.clock = ts, !.warnings = @ + 1]
        ELSE [st EXCEPT !.clock = ts, !.q = Append(@, ev),
                        !.accepted = Append(@, ev.timestamp)]

\* what wait_edge_events / read_edge_events can do on request h: nothing
\* pending, one edge (inputs only, outputs are requested with Edge.NONE), or
\* an error that the handlers of lines 152-160 swallow
PollOutcomes(h, budget) ==
    {"none"} \cup (IF env.ioerrors THEN {"oserror"} ELSE {}) \cup
    (IF Live(h) /\ reqs[h].dir = "input" /\ budget > 0 THEN {"edge"} ELSE {})

\* the call of wait_edge_events on request h (line 135) as the sweep
\* records it
Polled(st, h, outcome) ==
    [st EXCEPT !.swept = Append(@, [req |-> h, failed |-> outcome = "oserror"])]

\* a sweep that the error of one line ends
RECURSIVE SweepStopsAtError(_, _, _)
SweepStopsAtError(k, polls, st) ==
    IF k > Len(line_requests) THEN st
    ELSE LET key == line_requests[k].key
             h == line_requests[k].req
             st0 == Polled(st, h, polls[k])
         IN  IF polls[k] = "edge"
             THEN LET kind == IF st0.rq[h].val = 0 THEN "Rising" ELSE "Falling"
                      st1 == [st0 EXCEPT !.rq[h].val = 1 - @]
                  IN  SweepStopsAtError(k + 1, polls, PutEvent(st1, key, kind))
             ELSE IF polls[k] = "oserror" THEN st0
             ELSE SweepStopsAtError(k + 1, polls, st0)

\* the for loop of lines 130-160 from item k on: every item of line_requests
\* is polled; polls[k] is what the kernel has for item k.  An edge follows
\* the level of the line: Rising from 0.  An error on one item is swallowed
\* by the handlers of lines 152-160 and the loop goes on with the next.
RECURSIVE Sweep(_, _, _)
Sweep(k, polls, st) ==
    IF k > Len(line_requests) THEN st
    ELSE LET key == line_requests[k].key
             h == line_requests[k].req
             st0 == Polled(st, h, polls[k])
         IN  IF polls[k] = "edge"
             THEN LET kind == IF st0.rq[h].val = 0 THEN "Rising" ELSE "Falling"
                      st1 == [st0 EXCEPT !.rq[h].val = 1 - @]
                  IN  Sweep(k + 1, polls, PutEvent(st1, key, kind))
             ELSE Sweep(k + 1, polls, st0)

IsTask(t, kind) == t \in 1..Len(tasks) /\ tasks[t].kind = kind /\ ~Done(t)
Running == pc \in {"idle", "sd_wait"} /\ resp = NoResp

Finish(t, result) == [tasks EXCEPT ![t].at = "done", ![t].result = result]
\* no task ends in this step
NoneEnded == \A t \in 1..Len(tasks) : tasks'[t].at = "done" => tasks[t].at = "done"

\* a monitor that swallows the cancellation and goes on with its loop
MonitorIgnoresCancel(t) == [tasks EXCEPT ![t].at = "sleep", ![t].cancel = FALSE]

\* how a monitor_interrupts task ends when it is resumed with a cancellation
\* pending: line 163 catches it at the sleep of line 162 and the coroutine
\* returns; anywhere else the CancelledError leaves the coroutine
MonitorCancelled(t) ==
    Finish(t, IF tasks[t].at = "sleep" THEN "returned" ELSE "cancelled")

\* a monitor that lets the error of a sweep end it
MonitorErrorEnds(t) == Finish(t, "exception")

\* lines 166-168: an exception raised in the try block of the loop is logged
\* and the monitor sleeps one second before the next sweep
MonitorError(t) == [tasks EXCEPT ![t].at = "errsleep"]

\* one resumption of a monitor_interrupts task (lines 125-168): a sweep and
\* the sleep after it.  fate "error" is an exception that reaches line 166,
\* fate "crash" one that leaves the coroutine.
MonitorRun(t, polls, fate) ==
    /\ Running
    /\ IsTask(t, "interrupt")
    /\ polls \in [1..Len(line_requests) -> {"none", "oserror", "edge"}]
    /\ IF tasks[t].cancel
       THEN /\ fate = "ok"
            /\ \A k \in DOMAIN polls : polls[k] = "none"
            /\ tasks' = MonitorCancelled(t)
            /\ UNCHANGED <<reqs, queueVars, crashes, swept>>
       ELSE CASE fate = "ok" ->
                 /\ \A k \in DOMAIN polls :
                        polls[k] \in PollOutcomes(line_requests[k].req, env.events - clock)
                 /\ Cardinality({k \in DOMAIN polls : polls[k] = "edge"}) <= env.events - clock
                 /\ LET st == Sweep(1, polls,
                                [q |-> event_queue, accepted |-> accepted,
                                 warnings |-> drop_warnings, clock |-> clock, rq |-> reqs,
                                 swept |-> <<>>])
                    IN  /\ event_queue' = st.q
                        /\ accepted' = st.accepted
                        /\ drop_warnings' = st.warnings
                        /\ clock' = st.clock
                        /\ reqs' = st.rq
                        /\ swept' = st.swept
                 /\ tasks' = [tasks EXCEPT ![t].at = "sleep"]
                 /\ UNCHANGED <<drained, crashes>>
              [] fate = "error" ->
                 /\ \A k \in DOMAIN polls : polls[k] = "none"
                 /\ crashes < env.crashes
                 /\ tasks' = MonitorError(t)
                 /\ crashes' = crashes + 1
                 /\ swept' = <<>>
                 /\ UNCHANGED <<reqs, queueVars>>
              [] fate = "crash" ->
                 /\ \A k \in DOMAIN polls : polls[k] = "none"
                 /\ crashes < env.crashes
                 /\ tasks' = Finish(t, "exception")
                 /\ crashes' = crashes + 1
                 /\ swept' = <<>>
                 /\ UNCHANGED <<reqs, queueVars>>
    /\ logged' = IF ~tasks[t].cancel /\ fate = "error"
                 THEN <<[worker |-> "interrupt", cause |-> "error"]>>
                 ELSE <<>>
    /\ checked' = (checked /\ NoneEnded)
    /\ UNCHANGED <<diskVars, registryVars, interrupt_task, stats_task, task_monitor_task,
                   statsVars, pc, initVars, pending, entry, resp, reloads, restarts, env>>

\* a history that refuses the new sample when it is full
DequeAppendDropNewest(d, x) ==
    IF Len(d) >= STATS_HISTORY_MAX_POINTS THEN d ELSE Append(d, x)

\* ----------------------------------------------------- stats collector
\* deque(maxlen=STATS_HISTORY_MAX_POINTS).append
DequeAppend(d, x) ==
    IF Len(d) >= STATS_HISTORY_MAX_POINTS THEN Append(Tail(d), x) ELSE Append(d, x)

\* one resumption of the monitor_stats task (lines 88-123): a sample is
\* appended, then the task sleeps; the sleep is outside the try, so a
\* cancellation leaves the coroutine
StatsRun(t, fate) ==
    /\ Running
    /\ IsTask(t, "stats")
    /\ IF tasks[t].cancel
       THEN /\ fate = "ok"
            /\ tasks' = Finish(t, "cancelled")
            /\ UNCHANGED <<statsVars, crashes>>
       ELSE CASE fate = "ok" ->
                 /\ sampled < env.samples
                 /\ stats_history' = DequeAppend(stats_history,
                        [time |-> sampled + 1, temp |-> 0, load |-> 0])
                 /\ sampled' = sampled + 1
                 /\ tasks' = [tasks EXCEPT ![t].at = "sleep"]
                 /\ UNCHANGED crashes
              [] fate = "crash" ->
                 /\ crashes < env.crashes
                 /\ tasks' = Finish(t, "exception")
                 /\ crashes' = crashes + 1
                 /\ UNCHANGED statsVars
    /\ logged' = <<>>
    /\ checked' = (checked /\ NoneEnded)
    /\ UNCHANGED <<diskVars, registryVars, reqs, interrupt_task, stats_task, task_monitor_task,
                   queueVars, pc, initVars, pending, entry, resp, reloads, restarts, env,
                   swept>>

\* a supervisor that relaunches every worker at every check
NeedsRestartAlways(handle) == TRUE

\* a supervisor that only checks the handle for None
NeedsRestartNoneOnly(handle) == handle = NoTask

\* --------------------------------------------------------- supervisor
\* "x is None or x.done()"
NeedsRestart(handle) == handle = NoTask \/ Done(handle)

\* a supervisor that tells a cancelled worker from one that returned
RecordedCauseThreeWay(t) ==
    CASE tasks[t].result = "exception" -> "crashed"
      [] tasks[t].result = "cancelled" -> "cancelled"
      [] OTHER -> "stopped unexpectedly"

\* lines 322-326 and 333-337: what the supervisor logs about the ended task
\* t.  exc is its exception, or None when it was cancelled or returned.
RecordedCause(t) ==
    LET exc == IF tasks[t].result # "cancelled" /\ tasks[t].result = "exception"
               THEN "exception" ELSE "none"
    IN  IF exc # "none" THEN "crashed" ELSE "stopped unexpectedly"

\* lines 321 and 332: a cause is logged only for a handle that is a task
\* and is done
LoggedCause(worker, handle) ==
    IF handle # NoTask /\ Done(handle)
    THEN <<[worker |-> worker, cause |-> RecordedCause(handle)]>>
    ELSE <<>>

\* one resumption of the monitor_task_health task (lines 310-346): from the
\* start it reaches the sleep of line 317; from the sleep it checks both
\* workers and relaunches those that need it
SupervisorRun(t) ==
    /\ Running
    /\ IsTask(t, "health")
    /\ IF tasks[t].cancel
       THEN /\ tasks' = Finish(t, IF tasks[t].at = "sleep" THEN "returned" ELSE "cancelled")
            /\ checked' = FALSE
            /\ logged' = <<>>
            /\ UNCHANGED <<interrupt_task, stats_task, restarts>>
       ELSE IF tasks[t].at = "new"
       THEN /\ tasks' = [tasks EXCEPT ![t].at = "sleep"]
            /\ logged' = <<>>
            /\ UNCHANGED <<interrupt_task, stats_task, restarts, checked>>
       ELSE LET ri == NeedsRestart(interrupt_task)
                rs == NeedsRestart(stats_task)
                new == (IF ri THEN <<NewTask("interrupt")>> ELSE <<>>)
                       \o (IF rs THEN <<NewTask("stats")>> ELSE <<>>)
            IN  /\ tasks' = tasks \o new
                /\ interrupt_task' = IF ri THEN Len(tasks) + 1 ELSE interrupt_task
                /\ stats_task' = IF rs THEN Len(tasks) + Len(new) ELSE stats_task
                /\ restarts' = restarts + Len(new)
                /\ logged' = LoggedCause("interrupt", interrupt_task)
                              \o LoggedCause("stats", stats_task)
                /\ checked' = TRUE
    /\ task_monitor_task' = task_monitor_task
    /\ UNCHANGED <<diskVars, registryVars, reqs, queueVars, statsVars, pc, initVars,
                   pending, entry, resp, reloads, crashes, env, swept>>

\* a toggle that always switches the line on
InverseAlwaysOne(current) == 1

\* ------------------------------------------------------ pin endpoints
\* LineRequest.set_value: the kernel refuses it on a line requested as input
CanWrite(h) == Live(h) /\ reqs[h].dir = "output"

\* what toggle_pin writes after reading current (line 630)
Inverse(current) == IF current = 1 THEN 0 ELSE 1

\* a set_pin that takes a pin without a mapping for a malformed request
SetPinResultUnmapped422(n, state) ==
    IF I(n) \notin DOMAIN pin_mapping
    THEN [resp |-> HTTPError("set_pin", 422, "Validation error"), reqs |-> reqs]
    ELSE IF NotActive(I(n))
    THEN [resp |-> HTTPError("set_pin", 404, "Pin not active"), reqs |-> reqs]
    ELSE LET h == RequestOf(I(n)) IN
         IF CanWrite(h)
         THEN [resp |-> [op |-> "set_pin", status |-> 200, pin_num |-> n, state |-> state],
               reqs |-> [reqs EXCEPT ![h].val = IF state = 1 THEN 1 ELSE 0]]
         ELSE [resp |-> HTTPError("set_pin", 500, "OSError"), reqs |-> reqs]

\* set_pin, lines 611-620: what it answers and what it leaves on the lines
SetPinResult(n, state) ==
    IF NotActive(I(n))
    THEN [resp |-> HTTPError("set_pin", 404, "Pin not active"), reqs |-> reqs]
    ELSE LET h == RequestOf(I(n)) IN
         IF CanWrite(h)
         THEN [resp |-> [op |-> "set_pin", status |-> 200, pin_num |-> n, state |-> state],
               reqs |-> [reqs EXCEPT ![h].val = IF state = 1 THEN 1 ELSE 0]]
         ELSE [resp |-> HTTPError("set_pin", 500, "OSError"), reqs |-> reqs]

\* set_pin, lines 585-620
SetPin(n, state) ==
    /\ Serving
    /\ resp' = SetPinResult(n, state).resp
    /\ reqs' = SetPinResult(n, state).reqs
    /\ UNCHANGED <<diskVars, registryVars, taskVars, queueVars, statsVars, pc, initVars,
                   pending, entry, reloads, restarts, crashes, checked, env, logged, swept>>

\* toggle_pin, lines 624-634: what it answers and what it leaves on the lines
TogglePinResult(n) ==
    IF NotActive(I(n))
    THEN [resp |-> HTTPError("toggle_pin", 404, "Pin not active"), reqs |-> reqs]
    ELSE LET h == RequestOf(I(n))
             current == reqs[h].val
             new_state == Inverse(current)
         IN  IF CanWrite(h)
             THEN [resp |-> [op |-> "toggle_pin", status |-> 200, pin_num |-> n,
                             state |-> new_state],
                   reqs |-> [reqs EXCEPT ![h].val = new_state]]
             ELSE [resp |-> HTTPError("toggle_pin", 500, "OSError"), reqs |-> reqs]

\* toggle_pin, lines 622-634
TogglePin(n) ==
    /\ Serving
    /\ resp' = TogglePinResult(n).resp
    /\ reqs' = TogglePinResult(n).reqs
    /\ UNCHANGED <<diskVars, registryVars, taskVars, queueVars, statsVars, pc, initVars,
                   pending, entry, reloads, restarts, crashes, checked, env, logged, swept>>

\* the timestamps of a list of events
Stamps(evs) == [k \in 1..Len(evs) |-> evs[k].timestamp]

\* a drain that builds the list back to front
RECURSIVE DrainReversed(_, _)
DrainReversed(q, events) ==
    IF q = <<>> THEN [q |-> q, events |-> events]
    ELSE DrainReversed(Tail(q), <<Head(q)>> \o events)

\* the loop of lines 581-582: get_nowait until the queue is empty
RECURSIVE Drain(_, _)
Drain(q, events) ==
    IF q = <<>> THEN [q |-> q, events |-> events]
    ELSE Drain(Tail(q), Append(events, Head(q)))

\* get_events, lines 577-583: the loop has no await
get_events ==
    /\ Serving
    /\ LET d == Drain(event_queue, <<>>) IN
        /\ resp' = [op |-> "get_events", status |-> 200, events |-> d.events]
        /\ event_queue' = d.q
        /\ drained' = drained \o Stamps(d.events)
    /\ UNCHANGED <<diskVars, registryVars, reqs, taskVars, statsVars, pc, initVars, pending, entry,
                   accepted, drop_warnings, clock, reloads, restarts, crashes, checked, env, logged, swept>>

\* get_stats_history, lines 541-544
get_stats_history == [history |-> stats_history]

\* ------------------------------------------------------------ shutdown
\* lifespan, lines 360-373: the three tasks are cancelled and awaited
ShutdownBegin ==
    /\ Serving
    /\ tasks' = Cancel(tasks, {interrupt_task, stats_task, task_monitor_task})
    /\ pc' = "sd_wait"
    /\ UNCHANGED <<diskVars, registryVars, reqs, interrupt_task, stats_task,
                   task_monitor_task, queueVars, statsVars, initVars, pending, entry, resp,
                   reloads, restarts, crashes, checked, env, logged, swept>>

\* a shutdown that releases the lines without waiting for the gather of
\* line 371
ShutdownReleaseNoWait ==
    /\ pc = "sd_wait"
    /\ reqs' = ReleaseAll(reqs, LiveRequests)
    /\ line_requests' = <<>>
    /\ pin_mapping' = Empty
    /\ reverse_pin_mapping' = Empty
    /\ pc' = "stopped"
    /\ UNCHANGED <<diskVars, taskVars, queueVars, statsVars, initVars, pending, entry, resp,
                   reloads, restarts, crashes, checked, env, logged, swept>>

\* lifespan, lines 375-386: once gather has returned the lines are released
ShutdownRelease ==
    /\ pc = "sd_wait"
    /\ \A t \in {interrupt_task, stats_task, task_monitor_task} : Done(t)
    /\ reqs' = ReleaseAll(reqs, LiveRequests)
    /\ line_requests' = <<>>
    /\ pin_mapping' = Empty
    /\ reverse_pin_mapping' = Empty
    /\ pc' = "stopped"
    /\ UNCHANGED <<diskVars, taskVars, queueVars, statsVars, initVars, pending, entry, resp,
                   reloads, restarts, crashes, checked, env, logged, swept>>

Next ==
    \/ Startup
    \/ \E granted \in BOOLEAN : InitPin(granted)
    \/ StartTasks
    \/ Respond
    \/ \E config \in env.posts : update_config(config)
    \/ UC_Validate
    \/ \E io \in {"ok", "open-fails", "dump-fails"} : UC_Write(io)
    \/ UC_Release
    \/ UC_Init
    \/ UC_InitReturn
    \/ UC_Restart
    \/ \E t \in 1..Len(tasks), fate \in {"ok", "error", "crash"} :
          \E polls \in [1..Len(line_requests) -> {"none", "oserror", "edge"}] :
              MonitorRun(t, polls, fate)
    \/ \E t \in 1..Len(tasks), fate \in {"ok", "crash"} : StatsRun(t, fate)
    \/ \E t \in 1..Len(tasks) : SupervisorRun(t)
    \/ \E n \in Nums \cup {UnknownPin}, state \in {0, 1} : SetPin(n, state)
    \/ \E n \in Nums \cup {UnknownPin} : TogglePin(n)
    \/ get_events
    \/ ShutdownBegin
    \/ ShutdownRelease

\* Hot reloads from every document on disk; no edge arrives, no sample is due
Init ==
    InitWith(DiskDocs \cup {NoFile, Corrupt},
             [posts |-> PostDocs, reloads |-> MaxReloads, events |-> 0, samples |-> 0,
              crashes |-> 0, ioerrors |-> FALSE])
Spec == Init /\ [][Next]_vars

\* Edges and samples on a board with two inputs, one hot reload
TwoInputs == Doc(<<Entry(1, 0, 5, "input", "none"), Entry(2, 0, 6, "input", "pull-up")>>)
InitData ==
    InitWith({TwoInputs},
             [posts |-> {DefaultDoc, NoPinsDoc}, reloads |-> 1, events |-> MaxEvents,
              samples |-> MaxSamples, crashes |-> 0, ioerrors |-> FALSE])
SpecData == InitData /\ [][Next]_vars

\* Worker failures, the supervisor and shutdown on the shipped template
InitTasks ==
    InitWith({DefaultDoc},
             [posts |-> {DefaultDoc, NoPinsDoc}, reloads |-> 1, events |-> 0,
              samples |-> 1, crashes |-> MaxCrashes, ioerrors |-> FALSE])
SpecTasks == InitTasks /\ [][Next]_vars

\* a configuration without pin 2
OneOutput == Doc(<<Entry(1, 0, 5, "output", "none")>>)

\* Sweeps on the shipped template, one output and one input, with polls that
\* raise, and a hot reload to two inputs or to the output alone
InitSweep ==
    InitWith({DefaultDoc},
             [posts |-> {TwoInputs, OneOutput, NoPinsDoc}, reloads |-> 1, events |-> SweepEvents,
              samples |-> 1, crashes |-> 0, ioerrors |-> TRUE])
SpecSweep == InitSweep /\ [][Next]_vars

\* documents for the validator: the shipped template; an output and a
\* disabled entry on one address, in both orders; then documents with two
\* faults in different entries: a bad direction before a missing field, a
\* shared address before a repeated pin number, a bad bias before a chip
\* that is no integer; a missing field alone; no pins list
ValidatorDocs ==
    { DefaultDoc,
      Doc(<<Entry(1, 0, 5, "output", "none"), Entry(2, 0, 5, "disabled", "none")>>),
      Doc(<<Entry(2, 0, 5, "disabled", "none"), Entry(1, 0, 5, "output", "none")>>),
      Doc(<<Entry(1, 0, 5, "sideways", "none"),
            [Entry(2, 0, 6, "input", "none") EXCEPT !.bias = Absent]>>),
      Doc(<<Entry(1, 0, 6, "output", "none"), Entry(2, 0, 6, "output", "none"),
            Entry(1, 0, 5, "input", "none")>>),
      Doc(<<Entry(1, 0, 5, "output", "strong"),
            [Entry(2, 0, 6, "input", "none") EXCEPT !.chip = S("0")]>>),
      Doc(<<[Entry(1, 0, 5, "output", "none") EXCEPT !.line = Absent]>>),
      NoPinsDoc }

\* The validator on documents with a shared address or several faults
InitValidate ==
    InitWith({DefaultDoc},
             [posts |-> ValidatorDocs, reloads |-> MaxReloads, events |-> 0, samples |-> 0,
              crashes |-> 0, ioerrors |-> FALSE])
SpecValidate == InitValidate /\ [][Next]_vars

\* =============================================================== claims
\* ------------------------------------------------------------------ C1
\* init_gpios has walked the whole pins list
InitCompleted == pc = "init" /\ init_i > Len(init_pins)
\* the entries of the list whose claim succeeded: not disabled, and their
\* address is in the claimed-line table
ClaimedEntries ==
    {k \in 1..Len(init_pins) :
        /\ DirectionStr(init_pins[k]) # "disabled"
        /\ PinKey(init_pins[k]) \in Keys(line_requests)}

\* C1: once init_gpios has completed on a valid configuration (startup or
\* hot reload), pin_mapping and reverse_pin_mapping hold an entry for a pin
\* if and only if the pin is not disabled and its claim succeeded.
C1_RegistryIsClaimedPins ==
    (InitCompleted /\ validate_gpio_config(Doc(init_pins)).ok) =>
        /\ DOMAIN pin_mapping = {init_pins[k].num : k \in ClaimedEntries}
        /\ DOMAIN reverse_pin_mapping = {PinKey(init_pins[k]) : k \in ClaimedEntries}

\* ------------------------------------------------------------------ C2
\* the response of update_config to a document that validate_gpio_config
\* refused
Rejected(r) ==
    /\ r.op = "update_config"
    /\ r.status = 500
    /\ r.detail.error.exc # "OSError"

\* C2: when update_config answers that the document failed validation, the
\* file, the registry, the claimed-line table, every line and its value,
\* the edge monitor handle and the tasks are what they were when the handler
\* was entered, so get_config and get_status answer as before.
C2_RejectionChangesNothing ==
    [][(resp = NoResp /\ resp' # NoResp /\ Rejected(resp')) => Observable' = entry]_vars

\* a rejection on a board with a line that a client had switched on
C2_Witness ==
    /\ resp # NoResp
    /\ Rejected(resp)
    /\ get_config.status = 200
    /\ \E h \in 1..Len(reqs) : Live(h) /\ reqs[h].val = 1

\* ------------------------------------------------------------------ C3
\* init_gpios is about to claim the first line of a hot reload
ReloadInitStarts ==
    \/ pc = "uc_init"
    \/ pc = "init" /\ init_ret = "reload" /\ init_i = 1

\* C3: when init_gpios starts on a hot reload every line of the previous
\* configuration has been released and the claimed-line table and the
\* registry are empty; no address is ever held by two live requests.
C3_NoTwoGenerations ==
    /\ ReloadInitStarts =>
          /\ \A h \in 1..Len(reqs) : ~Live(h)
          /\ line_requests = <<>>
          /\ pin_mapping = Empty
          /\ reverse_pin_mapping = Empty
    /\ \A g, h \in 1..Len(reqs) :
          (g # h /\ Live(g) /\ Live(h)) => reqs[g].key # reqs[h].key

\* a hot reload that re-claims an address the previous generation had held
C3_Witness ==
    /\ pc = "init" /\ init_ret = "reload" /\ init_i > 1
    /\ \E g, h \in 1..Len(reqs) :
          /\ ~Live(g) /\ Live(h) /\ reqs[g].key = reqs[h].key

\* ------------------------------------------------------------------ C4
\* C4: no request is released twice; a request that is not yet released is
\* in the claimed-line table, where the next hot reload or the shutdown
\* releases it; after shutdown every request has been released once and
\* the registry is empty.
C4_ReleasedExactlyOnce ==
    /\ \A h \in 1..Len(reqs) : reqs[h].released <= 1
    /\ \A h \in 1..Len(reqs) : Live(h) => h \in LiveRequests
    /\ pc = "stopped" =>
          /\ \A h \in 1..Len(reqs) : reqs[h].released = 1
          /\ line_requests = <<>>
          /\ pin_mapping = Empty
          /\ reverse_pin_mapping = Empty

\* the process has stopped after a hot reload, with requests of both
\* generations released
C4_Witness ==
    /\ pc = "stopped"
    /\ reloads >= 1
    /\ Len(reqs) >= 3
    /\ \A h \in 1..Len(reqs) : reqs[h].released = 1

\* ------------------------------------------------------------------ C5
\* q is the beginning of r
IsPrefix(q, r) == Len(q) <= Len(r) /\ \A k \in 1..Len(q) : q[k] = r[k]

\* a step of the edge monitor in which put_nowait found the queue full
DropStep == drop_warnings' > drop_warnings

\* C5: the event queue never holds more than EVENT_QUEUE_MAX_SIZE events;
\* a sweep that finds the queue full drops the new event and leaves the
\* queued events and their order as they were, and the monitor task goes
\* on to its sleep: it has neither ended nor raised.
C5_QueueBoundedDropNewest ==
    /\ [](Len(event_queue) <= EVENT_QUEUE_MAX_SIZE)
    /\ [][DropStep =>
            /\ IsPrefix(event_queue, event_queue')
            /\ Len(event_queue') = EVENT_QUEUE_MAX_SIZE
            /\ Len(event_queue) = EVENT_QUEUE_MAX_SIZE => event_queue' = event_queue
            /\ Len(accepted') - Len(accepted) = Len(event_queue') - Len(event_queue)
            /\ \E t \in 1..Len(tasks) :
                  /\ tasks[t].kind = "interrupt"
                  /\ tasks' = [tasks EXCEPT ![t].at = "sleep"]
            /\ crashes' = crashes]_vars

\* an event was dropped, the queue is full and the monitor sleeps until its
\* next sweep
C5_Witness ==
    /\ drop_warnings > 0
    /\ Len(event_queue) = EVENT_QUEUE_MAX_SIZE
    /\ interrupt_task # NoTask
    /\ tasks[interrupt_task].at = "sleep"

\* ------------------------------------------------------------------ C6
\* the variables of the module: what the program itself keeps
ProgramVariables ==
    <<line_requests, pin_mapping, reverse_pin_mapping, interrupt_task, stats_task,
      task_monitor_task, event_queue, stats_history>>

\* C6 as stated: every dropped event increments a drop counter the program
\* keeps, so a drop changes a variable of the program.
C6_DropCounterKept ==
    [][DropStep => ProgramVariables' # ProgramVariables]_vars

\* C6 as amended: every event the kernel delivered was either accepted by
\* the queue or dropped with one logged warning, so the number of warnings
\* logged is the number of events dropped; a warning is logged only when
\* the queue is full.
C6_OneWarningPerDrop ==
    /\ [](drop_warnings = clock - Len(accepted))
    /\ [][DropStep => Len(event_queue') = EVENT_QUEUE_MAX_SIZE]_vars

\* two events were accepted and a third was dropped
C6_Witness ==
    /\ drop_warnings >= 1
    /\ Len(accepted) >= EVENT_QUEUE_MAX_SIZE
    /\ clock = Len(accepted) + drop_warnings

\* ------------------------------------------------------------------ C7
\* a step in which get_events answers
DrainStep == resp = NoResp /\ resp' # NoResp /\ resp'.op = "get_events"

\* C7: get_events returns the events that were queued when it was called,
\* in the order they were queued, and leaves the queue empty; the events
\* returned so far followed by the events still queued are the accepted
\* events in order, so each accepted event is returned by exactly one call.
C7_DrainAllInOrderOnce ==
    /\ [](drained \o Stamps(event_queue) = accepted)
    /\ [][DrainStep =>
            /\ resp'.events = event_queue
            /\ event_queue' = <<>>
            /\ accepted' = accepted]_vars

\* the second of two calls returns two events, after a first that returned
\* another
C7_Witness ==
    /\ resp # NoResp
    /\ resp.op = "get_events"
    /\ Len(resp.events) >= 2
    /\ Len(drained) > Len(resp.events)
    /\ event_queue = <<>>

\* ------------------------------------------------------------------ C8
\* C8: stats_history never holds more than STATS_HISTORY_MAX_POINTS samples;
\* it holds the most recent samples, so an append at capacity has evicted
\* the oldest one; get_stats_history lists them oldest first.
C8_HistoryBoundedOldestFirst ==
    LET history == get_stats_history.history
        n == Len(history)
    IN  /\ n <= STATS_HISTORY_MAX_POINTS
        /\ n = IF sampled < STATS_HISTORY_MAX_POINTS THEN sampled
               ELSE STATS_HISTORY_MAX_POINTS
        /\ \A k \in 1..n : history[k].time = sampled - n + k

\* more samples were taken than the history holds
C8_Witness ==
    /\ sampled > STATS_HISTORY_MAX_POINTS
    /\ Len(stats_history) = STATS_HISTORY_MAX_POINTS
    /\ stats_history[1].time = sampled - STATS_HISTORY_MAX_POINTS + 1

\* ------------------------------------------------------------------ C9
\* a worker of this kind has ended with an uncaught error
Crashed(kind) ==
    \E t \in 1..Len(tasks) : tasks[t].kind = kind /\ tasks[t].result = "exception"

\* the fields of the health snapshot that report on a worker of this kind
WorkerFields(kind) ==
    IF kind = "interrupt" THEN {"interrupt_monitor_running"} ELSE {}
HealthReportsAlive(kind) == \E f \in WorkerFields(kind) : health[f]

\* the handle of the worker of this kind
HandleOf(kind) == IF kind = "interrupt" THEN interrupt_task ELSE stats_task

\* a fresh instance runs under the stored handle
RunsFresh(kind) ==
    /\ HandleOf(kind) \in 1..Len(tasks)
    /\ tasks[HandleOf(kind)].kind = kind
    /\ ~Done(HandleOf(kind))

ToggleStep ==
    /\ resp = NoResp /\ resp' # NoResp
    /\ resp'.op = "toggle_pin"
    /\ resp'.status = 200

\* C10: toggle_pin on a claimed output pin returns the inverse of the value
\* the line had and leaves the line at the value it returns, so successive
\* calls alternate between 0 and 1.
C10_ToggleAlternates ==
    [][ToggleStep =>
          LET h == RequestOf(I(resp'.pin_num)) IN
          /\ reqs[h].dir = "output"
          /\ reqs[h].val \in {0, 1}
          /\ resp'.state = 1 - reqs[h].val
          /\ reqs'[h].val = resp'.state
          /\ \A g \in 1..Len(reqs) : g # h => reqs'[g] = reqs[g]]_vars

\* a toggle that switched the line off: the line had been switched on
C10_Witness ==
    /\ resp # NoResp
    /\ resp.op = "toggle_pin"
    /\ resp.status = 200
    /\ resp.state = 0

\* ----------------------------------------------------------------- C11
\* pin n has a request of its own in the claimed-line table, and it is an
\* output
ClaimedOutput(n) ==
    /\ ~NotActive(I(n))
    /\ reqs[RequestOf(I(n))].consumer = I(n)
    /\ reqs[RequestOf(I(n))].dir = "output"

\* get_status lists pin n as active with current_state v
Reports(n, v) ==
    /\ get_status.status = 200
    /\ \E k \in 1..Len(get_status.pins) :
          /\ get_status.pins[k].pin_cfg.num = I(n)
          /\ get_status.pins[k].active
          /\ get_status.pins[k].current_state = v

\* a step in which set_pin or toggle_pin has written the line of pin n
WritesPin(n) ==
    /\ resp = NoResp /\ resp' # NoResp
    /\ resp'.op \in {"set_pin", "toggle_pin"}
    /\ resp'.status = 200
    /\ resp'.pin_num = n

\* a hot reload is in progress: the document passed validation and
\* update_config has not returned
InReload == pc \in {"uc_write", "uc_release", "uc_init", "init", "uc_restart"}

\* C11: when init_gpios has completed every output pin it claimed is
\* reported active with current_state 0; a successful set_pin(n, v) makes
\* get_status report v for pin n; and the value reported for a claimed
\* output pin stays what it is over every step that is not a set_pin or a
\* toggle_pin of that pin and not part of a hot reload.
C11_StatusFollowsSetPin ==
    /\ [](InitCompleted =>
            \A k \in ClaimedEntries :
                DirectionStr(init_pins[k]) = "output" => Reports(init_pins[k].num.i, 0))
    /\ [][\A n \in Nums :
            /\ \A v \in {0, 1} :
                 (WritesPin(n) /\ resp'.op = "set_pin" /\ resp'.state = v)
                     => Reports(n, v)'
            /\ \A v \in {0, 1} :
                 (/\ pc = "idle" /\ ClaimedOutput(n) /\ Reports(n, v)
                  /\ ~WritesPin(n) /\ ~InReload') => Reports(n, v)']_vars

\* ----------------------------------------------------------------- C12
\* a request claimed for pin number num is held in the claimed-line table
HeldFor(num) == \E h \in LiveRequests : Live(h) /\ reqs[h].consumer = num

\* C12: whenever get_status answers, it reports a pin active if and only if
\* a request claimed for that pin is held in the claimed-line table, and it
\* reports current_state -1 for every pin that is not active.
C12_ActiveIffClaimed ==
    get_status.status = 200 =>
        \A k \in 1..Len(get_status.pins) :
            LET item == get_status.pins[k] IN
            /\ item.active <=> HeldFor(item.pin_cfg.num)
            /\ ~item.active => item.current_state = -1

\* ----------------------------------------------------------------- C13
\* the pairs of entries of a document that share (chip, line)
SharedAddressPairs(config) ==
    IF ~config.haspins THEN {}
    ELSE {p \in (1..Len(config.pins)) \X (1..Len(config.pins)) :
            /\ p[1] < p[2]
            /\ config.pins[p[1]].chip.ty = "int"
            /\ config.pins[p[1]].line.ty = "int"
            /\ config.pins[p[1]].chip = config.pins[p[2]].chip
            /\ config.pins[p[1]].line = config.pins[p[2]].line}

\* update_config decides on a document with two entries on one address
DecidesSharedAddress == pc = "uc_validate" /\ SharedAddressPairs(pending) # {}

\* the pin numbers the detail of an error names
NamedPins(error) == IF error.pin = Absent THEN {} ELSE {error.pin}

UpdateFailed == resp # NoResp /\ resp.op = "update_config" /\ resp.status # 200

\* C14: update_config answers a document the validator refused with a
\* validation error (the 400 of line 1157) that carries the validator's
\* detail, and an internal failure while writing or reloading with another
\* outcome (the 500 of line 1176), so that a client can tell the two apart.
C14_ValidationErrorDistinct ==
    UpdateFailed =>
        /\ resp.detail.error.exc = "ValueError" => resp.status = 400
        /\ resp.detail.error.exc = "OSError" => resp.status = 500

\* ----------------------------------------------------------------- C15
\* pin n has no entry in the registry: the running configuration does not
\* know it
Unmapped(n) == I(n) \notin DOMAIN pin_mapping
\* pin n is in the registry and its line is not in the claimed-line table
Unclaimed(n) == ~Unmapped(n) /\ pin_mapping[I(n)] \notin Keys(line_requests)

PinNumbers == Nums \cup {UnknownPin}

\* C15 as stated: set_pin and toggle_pin answer a pin that is not
\* configured and a configured pin whose line is not claimed with two
\* distinct outcomes, and change no line value in either case.
C15_TwoDistinctRefusals ==
    \A n, m \in PinNumbers :
        (Unmapped(n) /\ Unclaimed(m)) =>
            /\ SetPinResult(n, 1).resp # SetPinResult(m, 1).resp
            /\ TogglePinResult(n).resp # TogglePinResult(m).resp
            /\ SetPinResult(n, 1).reqs = reqs /\ SetPinResult(m, 1).reqs = reqs
            /\ TogglePinResult(n).reqs = reqs /\ TogglePinResult(m).reqs = reqs

\* C15 as amended: set_pin and toggle_pin answer both a pin without a
\* registry entry and a registered pin whose line is not claimed with the
\* same 404 "Pin not active", and change no line value.
C15_OneRefusalNoChange ==
    \A n \in PinNumbers : \A state \in {0, 1} :
        (Unmapped(n) \/ Unclaimed(n)) =>
            /\ SetPinResult(n, state) =
                  [resp |-> HTTPError("set_pin", 404, "Pin not active"), reqs |-> reqs]
            /\ TogglePinResult(n) =
                  [resp |-> HTTPError("toggle_pin", 404, "Pin not active"), reqs |-> reqs]

\* set_pin has refused a pin while a registered pin has no claimed line and
\* another line is switched on
C15_Witness ==
    /\ resp # NoResp
    /\ resp.op = "set_pin"
    /\ resp.status = 404
    /\ \E n \in Nums : Unclaimed(n)
    /\ \E h \in 1..Len(reqs) : Live(h) /\ reqs[h].val = 1

\* ----------------------------------------------------------------- C16
\* entry k of the list is not disabled
NotDisabled(k) == DirectionStr(init_pins[k]) # "disabled"

\* init_gpios has reached entry k: it has recorded the pin before claiming
Attempted(k) == init_pins[k].num \in DOMAIN pin_mapping

\* C16: a turn of the loop of init_gpios whose claim fails moves on to the
\* next entry; when the loop ends every entry that is not disabled has been
\* attempted, and every request the provider granted is in the claimed-line
\* table.
C16_FailedClaimDoesNotAbort ==
    /\ [][(pc = "init" /\ init_i <= Len(init_pins)) =>
             (pc' = "init" /\ init_i' = init_i + 1 /\ init_pins' = init_pins)]_vars
    /\ [](InitCompleted =>
             /\ \A k \in 1..Len(init_pins) : NotDisabled(k) => Attempted(k)
             /\ \A h \in 1..Len(reqs) :
                   Live(h) => /\ reqs[h].key \in Keys(line_requests)
                              /\ Get(line_requests, reqs[h].key) = h)

\* the claim of the first entry failed and the second entry was claimed
C16_Witness ==
    /\ InitCompleted
    /\ Len(init_pins) = 2
    /\ NotDisabled(1)
    /\ PinKey(init_pins[1]) \notin Keys(line_requests)
    /\ PinKey(init_pins[2]) \in Keys(line_requests)

\* ----------------------------------------------------------------- C17
\* the document declares this entry disabled
DeclaredDisabled(pin_cfg) ==
    pin_cfg.direction.ty = "str" /\ Lower(pin_cfg.direction.s) = "disabled"

\* pin number num is in no table and holds no request
RecordedNowhere(num) ==
    /\ num \notin DOMAIN pin_mapping
    /\ \A key \in DOMAIN reverse_pin_mapping : reverse_pin_mapping[key] # num
    /\ \A h \in 1..Len(reqs) : Live(h) => reqs[h].consumer # num

\* C17: the turn of init_gpios on a disabled entry asks the provider for
\* nothing and writes no table; at startup, during and after every hot
\* reload a disabled pin of the configuration in use is in neither registry
\* and holds no line.
C17_DisabledRecordedNowhere ==
    /\ [][(pc = "init" /\ init_i <= Len(init_pins) /\ DeclaredDisabled(init_pins[init_i]))
             => UNCHANGED <<line_requests, pin_mapping, reverse_pin_mapping, reqs>>]_vars
    /\ [](\A k \in 1..Len(init_pins) :
             DeclaredDisabled(init_pins[k]) => RecordedNowhere(init_pins[k].num))

\* a hot reload has walked a document with a disabled entry and claimed the
\* line of another entry
C17_Witness ==
    /\ InitCompleted
    /\ init_ret = "reload"
    /\ \E k \in 1..Len(init_pins) : DeclaredDisabled(init_pins[k])
    /\ Len(line_requests) >= 1

\* ----------------------------------------------------------------- C18
\* init_gpios is walking the pins of the document on disk
InitUsesDocument == pc = "init" /\ config_file # NoFile /\ config_file # Corrupt

\* C18: every document whose pins init_gpios walks and claims, at startup
\* as on a hot reload, passes validate_gpio_config.
C18_OnlyValidatedTakesEffect ==
    InitUsesDocument => validate_gpio_config(config_file).ok

\* ----------------------------------------------------------------- C19
\* C19: whatever happens while update_config writes the file, the document
\* on disk afterwards is the complete previous one or the complete new one.
C19_RewriteIsAtomic ==
    [][pc = "uc_write" => (config_file' = config_file \/ config_file' = pending)]_vars

\* ----------------------------------------------------------------- C20
\* startup found no document it could load: neither file exists, or
\* json.load failed
NoUsableSource == init_ret = "boot" /\ reloads = 0 /\ config_file \in {NoFile, Corrupt}

\* the three background tasks exist under their handles
WorkersStarted ==
    /\ IsTask(interrupt_task, "interrupt")
    /\ IsTask(stats_task, "stats")
    /\ IsTask(task_monitor_task, "health")

\* C20: when startup finds no document it can load, init_gpios ends at
\* once with no line claimed and empty tables, and startup goes on to
\* create the edge monitor, the stats collector and the supervisor.
C20_StartsWithoutConfiguration ==
    /\ []((NoUsableSource /\ pc = "init") =>
             /\ InitCompleted
             /\ reqs = <<>>
             /\ line_requests = <<>>
             /\ pin_mapping = Empty
             /\ reverse_pin_mapping = Empty)
    /\ [][(NoUsableSource /\ pc = "init") => (pc' = "idle" /\ WorkersStarted')]_vars

\* the service runs without a document: nothing is claimed and a worker
\* has reached its sleep
C20_Witness ==
    /\ NoUsableSource
    /\ pc = "idle"
    /\ Len(reqs) = 0
    /\ WorkersStarted
    /\ tasks[interrupt_task].at = "sleep"

\* ----------------------------------------------------------------- C21
\* no request is live and the three tables are empty
AllReleased ==
    /\ \A h \in 1..Len(reqs) : ~Live(h)
    /\ line_requests = <<>>
    /\ pin_mapping = Empty
    /\ reverse_pin_mapping = Empty

\* C21 as stated: update_config persists the new document only after the
\* lines of the previous configuration are released and the registry is
\* cleared.
C21_PersistAfterRelease ==
    [][(pc = "uc_write" /\ config_file' = pending /\ pc' # "idle") => AllReleased]_vars

\* C21 as amended: a hot reload that succeeds validates the document, then
\* persists it, then releases every claimed line and clears the tables,
\* then runs init_gpios on the persisted document, then starts a new edge
\* monitor; the document is on disk before the old lines are released.
C21_ValidatePersistReleaseInit ==
    /\ [][/\ (pc = "uc_validate" /\ pc' # "idle") =>
                (pc' = "uc_write" /\ UNCHANGED <<config_file, line_requests, reqs>>)
          /\ (pc = "uc_write" /\ pc' # "idle") =>
                (pc' = "uc_release" /\ config_file' = pending
                 /\ UNCHANGED <<line_requests, pin_mapping, reverse_pin_mapping, reqs>>)
          /\ pc = "uc_release" =>
                (pc' = "uc_init" /\ AllReleased' /\ config_file' = config_file)
          /\ pc = "uc_init" =>
                (pc' = "init" /\ init_pins' = LoadedPins(pending) /\ init_ret' = "reload")
          /\ (pc = "init" /\ init_ret = "reload" /\ pc' # "init") => pc' = "uc_restart"
          /\ pc = "uc_restart" => (pc' = "idle" /\ resp'.status = 200)]_vars
    /\ [](pc \in {"uc_release", "uc_init", "uc_restart"} => config_file = pending)

\* the new document is on disk while the lines of the previous
\* configuration are still held
C21_Witness ==
    /\ pc = "uc_release"
    /\ config_file = pending
    /\ entry.config.status = 200
    /\ entry.config.config # pending
    /\ \E h \in 1..Len(reqs) : Live(h) /\ h \in LiveRequests

\* ----------------------------------------------------------------- C22
\* task t is an edge monitor that has been cancelled and has not ended yet
CancelledMonitor(t) ==
    /\ tasks[t].kind = "interrupt"
    /\ tasks[t].cancel
    /\ ~Done(t)

\* C22: update_config ends by storing a new edge monitor task, not
\* cancelled, under interrupt_task; from release_gpios on, the only step
\* the previous monitor takes is to end, without reading a line or queueing
\* an event; and every edge monitor other than the stored one has ended or
\* is cancelled, so only the stored one sweeps line_requests.
C22_OldMonitorNeverPollsAgain ==
    /\ [][/\ pc = "uc_restart" =>
                /\ interrupt_task' = Len(tasks) + 1
                /\ tasks'[interrupt_task'] = NewTask("interrupt")
                /\ interrupt_task # NoTask =>
                      (Done(interrupt_task) \/ tasks[interrupt_task].cancel)
          /\ \A t \in 1..Len(tasks) :
                (CancelledMonitor(t) /\ tasks'[t] # tasks[t]) =>
                    /\ tasks'[t].at = "done"
                    /\ UNCHANGED <<reqs, event_queue, accepted, drop_warnings, clock, swept>>]_vars
    /\ [](\A t \in 1..Len(tasks) :
             (tasks[t].kind = "interrupt" /\ t # interrupt_task) =>
                 (Done(t) \/ tasks[t].cancel))

\* after a hot reload the previous monitor has ended by its cancellation
\* and the new one has made a sweep that queued an event
C22_Witness ==
    /\ pc = "idle"
    /\ reloads >= 1
    /\ interrupt_task # NoTask
    /\ tasks[interrupt_task].at = "sleep"
    /\ \E t \in 1..Len(tasks) :
          /\ t < interrupt_task
          /\ tasks[t].kind = "interrupt"
          /\ tasks[t].cancel
          /\ Done(t)
    /\ Len(reqs) > Len(line_requests)
    /\ \E k \in 1..Len(event_queue) : event_queue[k].timestamp = S(ToString(clock))

\* ----------------------------------------------------------------- C23
\* the three tasks the shutdown cancels and waits for (line 364)
ShutdownTasks == {interrupt_task, stats_task, task_monitor_task}

\* C23: from the start of the shutdown every one of the three background
\* tasks is cancelled or has ended; a claimed line is released by the
\* shutdown only when all three have ended; and the only step a cancelled
\* task takes is to end: it makes no sweep, takes no sample and relaunches
\* nothing.
C23_ReleaseAfterWorkersEnd ==
    /\ [](pc \in {"sd_wait", "stopped"} =>
             \A t \in ShutdownTasks : t # NoTask /\ (Done(t) \/ tasks[t].cancel))
    /\ [][/\ (pc = "sd_wait" /\ \E h \in 1..Len(reqs) : Live(h) /\ ~Live(h)') =>
                \A t \in ShutdownTasks : Done(t)
          /\ pc = "idle" /\ pc' = "sd_wait" => reqs' = reqs
          /\ \A t \in 1..Len(tasks) :
                (tasks[t].cancel /\ ~Done(t) /\ tasks'[t] # tasks[t]) =>
                    /\ tasks'[t].at = "done"
                    /\ Len(tasks') = Len(tasks)
                    /\ UNCHANGED <<reqs, event_queue, clock, stats_history, sampled,
                                   interrupt_task, stats_task, swept>>]_vars

\* the shutdown has released a claimed line after a monitor that had swept
\* and a collector that had sampled were cancelled and ended
C23_Witness ==
    /\ pc = "stopped"
    /\ Len(reqs) > 0
    /\ \A h \in 1..Len(reqs) : ~Live(h)
    /\ \A t \in ShutdownTasks : Done(t) /\ tasks[t].cancel
    /\ clock > 0
    /\ sampled > 0

\* ----------------------------------------------------------------- C24
\* this step is a resumption of monitor t in which an error reached the
\* handler of the loop
SweepError(t) ==
    /\ tasks[t].kind = "interrupt"
    /\ tasks'[t] # tasks[t]
    /\ crashes' = crashes + 1
    /\ logged' = <<[worker |-> "interrupt", cause |-> "error"]>>

\* C24 as stated: an error of a sweep that no per-line handler took ends
\* the monitor instance.
C24_SweepErrorEndsMonitor ==
    [][\A t \in 1..Len(tasks) : SweepError(t) => Done(t)']_vars

\* C24: an error of a sweep that no per-line handler took is caught by the
\* monitor itself: the task is not done and keeps its handle, nothing is
\* relaunched, and its next resumption is a new sweep unless it has been
\* cancelled or fails again; the handle of a monitor waiting after an error
\* is replaced by a hot reload only.
C24_SweepErrorCaughtAndResumed ==
    [][/\ \A t \in 1..Len(tasks) :
            /\ SweepError(t) =>
                  /\ ~Done(t)'
                  /\ tasks'[t].result = "none"
                  /\ Len(tasks') = Len(tasks)
                  /\ UNCHANGED <<interrupt_task, restarts, registryVars, reqs, event_queue>>
            /\ (/\ tasks[t].kind = "interrupt"
                /\ tasks[t].at = "errsleep"
                /\ tasks'[t].at # "errsleep"
                /\ ~tasks[t].cancel
                /\ crashes' = crashes) => tasks'[t].at = "sleep"
       /\ (/\ interrupt_task # NoTask
           /\ tasks[interrupt_task].at = "errsleep"
           /\ interrupt_task' # interrupt_task) => pc = "uc_restart"]_vars

\* the first monitor has swept again after an error of a sweep, and no
\* task was relaunched
C24_Witness ==
    /\ pc = "idle"
    /\ crashes = 1
    /\ restarts = 0
    /\ reloads = 0
    /\ interrupt_task = 1
    /\ tasks[1].at = "sleep"
    /\ \A t \in 1..Len(tasks) : ~Done(t)
    /\ logged = <<>>
    /\ checked

\* ----------------------------------------------------------------- C25
\* toggle_pin would answer 200 for pin n in this state
CanToggle(n) == TogglePinResult(n).resp.status = 200

\* the answers of two toggle_pin requests for pin n that are both in flight
\* in this state: the handler does not suspend, so the loop runs one to its
\* end and then the other, which reads the line the first one left
TwoToggles(n) ==
    LET first == TogglePinResult(n)
        h == RequestOf(I(n))
    IN  <<first.resp.state, Inverse(first.reqs[h].val)>>

AbsentOrEnded(kind) ==
    HandleOf(kind) = NoTask \/ tasks[HandleOf(kind)].at = "done"

\* this step is a check of the supervisor that found something to do or
\* to record
SupervisorCheck ==
    /\ pc = "idle" /\ pc' = "idle"
    /\ \/ checked' /\ ~checked
       \/ Len(tasks') > Len(tasks)

\* the workers whose handle this step replaces
Relaunched == {kind \in {"interrupt", "stats"} : HandleOf(kind)' # HandleOf(kind)}

\* C26: a check of the supervisor relaunches a worker exactly when its
\* handle is absent or refers to an ended task; the handle then refers to a
\* task created in this step; the handle of a live worker is left alone;
\* and the check creates one task for each worker it relaunches.
C26_RelaunchedIffAbsentOrEnded ==
    [][/\ (pc = "idle" /\ pc' = "idle") =>
              \A kind \in Relaunched : AbsentOrEnded(kind)
       /\ SupervisorCheck =>
              /\ \A kind \in {"interrupt", "stats"} :
                     AbsentOrEnded(kind) <=> kind \in Relaunched
              /\ \A kind \in Relaunched :
                     /\ HandleOf(kind)' \in (Len(tasks) + 1)..Len(tasks')
                     /\ tasks'[HandleOf(kind)'] = NewTask(kind)
              /\ Len(tasks') = Len(tasks) + Cardinality(Relaunched)
              /\ \A t \in 1..Len(tasks) : tasks'[t] = tasks[t]
              /\ restarts' = restarts + Cardinality(Relaunched)]_vars

\* a check has relaunched the crashed edge monitor as task 4 and left the
\* live stats collector under its handle
C26_Witness ==
    /\ checked
    /\ restarts = 1
    /\ tasks[1].result = "exception"
    /\ interrupt_task = 4
    /\ tasks[4].kind = "interrupt"
    /\ stats_task = 2
    /\ ~Done(2)
    /\ Len(tasks) = 4

\* ----------------------------------------------------------------- C27
\* the edge monitors and stats collectors that have ended
EndedWorkers ==
    {t \in 1..Len(tasks) : tasks[t].kind \in {"interrupt", "stats"} /\ Done(t)}

\* the task under the worker's handle has ended with an unhandled error
EndedWithError(kind) ==
    HandleOf(kind) # NoTask /\ tasks[HandleOf(kind)].result = "exception"

\* C27 as stated: workers that ended in different ways (returned, cancelled,
\* unhandled error) get different causes from the supervisor.
C27_CauseTellsThreeCases ==
    \A t, u \in EndedWorkers :
        tasks[t].result # tasks[u].result => RecordedCause(t) # RecordedCause(u)

\* C27: the cause the supervisor has for an ended worker tells two cases
\* apart: "crashed" for an unhandled error, "stopped unexpectedly" for every
\* other end, a cancellation included; and what a check logs is that cause
\* for each worker whose handle refers to an ended task, edge monitor first.
C27_CauseTellsErrorFromOtherEnds ==
    /\ [](\A t \in EndedWorkers :
             /\ tasks[t].result = "exception" => RecordedCause(t) = "crashed"
             /\ tasks[t].result \in {"cancelled", "returned"} =>
                    RecordedCause(t) = "stopped unexpectedly")
    /\ [][SupervisorCheck =>
             logged' =
                SelectSeq(<<[worker |-> "interrupt",
                             cause |-> IF EndedWithError("interrupt") THEN "crashed"
                                       ELSE "stopped unexpectedly"],
                            [worker |-> "stats",
                             cause |-> IF EndedWithError("stats") THEN "crashed"
                                       ELSE "stopped unexpectedly"]>>,
                          LAMBDA r : HandleOf(r.worker)' # HandleOf(r.worker))]_vars

\* the supervisor has just recorded that the stats collector crashed, and
\* an edge monitor that was cancelled has ended
C27_Witness ==
    /\ logged = <<[worker |-> "stats", cause |-> "crashed"]>>
    /\ checked
    /\ \E t \in EndedWorkers : tasks[t].result \in {"cancelled", "returned"}

\* ----------------------------------------------------------------- C28
\* this step is a sweep of an edge monitor
SweepStep ==
    \/ swept' # swept
    \/ clock' > clock
    \/ \E t \in 1..Len(tasks) :
          tasks[t].kind = "interrupt" /\ tasks[t].at = "new" /\ tasks'[t].at = "sleep"

\* the requests of the claimed-line table, in its order
TableRequests == [k \in 1..Len(line_requests) |-> line_requests[k].req]

\* C28: a sweep, whether or not the poll of a line raised or found no
\* event, has polled every line of the claimed-line table, in order, and
\* the monitor then sleeps: no task ends; the registry and the table are as
\* before, no line is released, a line whose poll raised keeps its value,
\* and the events already queued are still at the head of the queue.
C28_LineErrorIsNotFatal ==
    [][(SweepStep /\ crashes' = crashes) =>
          /\ [k \in 1..Len(swept') |-> swept'[k].req] = TableRequests
          /\ NoneEnded
          /\ \E t \in 1..Len(tasks) :
                tasks[t].kind = "interrupt" /\ tasks'[t].at = "sleep" /\ ~tasks[t].cancel
          /\ UNCHANGED <<registryVars, interrupt_task, restarts, crashes>>
          /\ Len(reqs') = Len(reqs)
          /\ \A h \in 1..Len(reqs) : Live(h)' = Live(h)
          /\ \A k \in 1..Len(swept') :
                swept'[k].failed => reqs'[swept'[k].req] = reqs[swept'[k].req]
          /\ IsPrefix(event_queue, event_queue')]_vars

\* in one sweep the poll of the first line raised and the edge of the
\* second line was read and queued
C28_Witness ==
    /\ Len(swept) = 2
    /\ swept[1].failed
    /\ ~swept[2].failed
    /\ clock = 1
    /\ Len(event_queue) = 1
    /\ event_queue[1].pin = reverse_pin_mapping[line_requests[2].key]
    /\ \E t \in 1..Len(tasks) : tasks[t].kind = "interrupt" /\ tasks[t].at = "sleep"

\* ----------------------------------------------------------------- C29
\* C29: every line the latest sweep polled was requested as an input.
C29_OnlyInputsPolled ==
    \A k \in 1..Len(swept) : reqs[swept[k].req].dir = "input"

\* ----------------------------------------------------------------- C30
\* C30: no two pin numbers of pin_mapping have the same address, and no two
\* pin numbers are active on the same request of the claimed-line table.
C30_NoTwoPinsOnOneAddress ==
    \A n, m \in DOMAIN pin_mapping :
        n # m =>
            /\ pin_mapping[n] # pin_mapping[m]
            /\ ~(/\ ~NotActive(n)
                 /\ ~NotActive(m)
                 /\ RequestOf(n) = RequestOf(m))

\* ----------------------------------------------------------------- C31
\* entry k of the document is disabled
IsDisabled(config, k) == config.pins[k].direction = S("disabled")

\* the only fault of the document is an address that two entries share,
\* and every such pair has a disabled entry
OnlyDisabledShares(config) ==
    /\ config.haspins
    /\ SharedAddressPairs(config) # {}
    /\ \A p \in SharedAddressPairs(config) :
          IsDisabled(config, p[1]) \/ IsDisabled(config, p[2])
    /\ \A k \in 1..Len(config.pins) : ValidatePin(config.pins[k], {}, {}).ok
    /\ \A j, k \in 1..Len(config.pins) :
          j # k => config.pins[j].num # config.pins[k].num

\* C31 as stated: a document whose only shared address involves a disabled
\* entry passes the validator and update_config goes on to apply it.
C31_DisabledMayShareAddress ==
    [][(pc = "uc_validate" /\ OnlyDisabledShares(pending)) =>
          /\ pc' = After("uc_validate")
          /\ pending' = pending]_vars

\* C31: the validator requires the address to be unique across all entries,
\* the disabled ones included: such a document is refused with the
\* duplicate hardware mapping error and nothing of it takes effect.
C31_DisabledEntriesCountForAddress ==
    [][(pc = "uc_validate" /\ OnlyDisabledShares(pending)) =>
          /\ ~validate_gpio_config(pending).ok
          /\ Rejected(resp')
          /\ resp'.detail.inner = 400
          /\ resp'.detail.error.kind = "duplicate-hardware"
          /\ pc' = "idle"
          /\ Observable' = entry
          /\ reloads' = reloads]_vars

\* the refusal of a document with an output and a disabled entry on line 5
\* is on its way to the client: no other posted document shares line 5
C31_Witness ==
    /\ pc = "idle"
    /\ resp # NoResp
    /\ Rejected(resp)
    /\ resp.detail.error.kind = "duplicate-hardware"
    /\ resp.detail.error.line = I(5)
    /\ \A config \in env.posts :
          (config.haspins /\ \E p \in SharedAddressPairs(config) :
                               config.pins[p[1]].line = I(5))
              => OnlyDisabledShares(config)
    /\ get_config.status = 200

\* ----------------------------------------------------------------- C32
\* the place of a kind of error in the order (a) pins list, (b) fields and
\* types, (c) pin number twice, (d) address twice, (e) enumerations
KindRank(kind) ==
    CASE kind = "no-pins-list" -> 1
      [] kind \in {"missing-field", "not-integers"} -> 2
      [] kind = "duplicate-num" -> 3
      [] kind = "duplicate-hardware" -> 4
      [] OTHER -> 5

\* the kinds of fault entry k of the document has, by place in that order
EntryFaults(config, k) ==
    LET pin == config.pins[k]
        fields == ValidatePin(pin, {}, {})
    IN  (IF fields.kind \in {"missing-field", "not-integers"} THEN {2} ELSE {})
        \cup (IF \E j \in 1..(k - 1) : pin.num # Absent /\ config.pins[j].num = pin.num
              THEN {3} ELSE {})
        \cup (IF \E j \in 1..(k - 1) : <<j, k>> \in SharedAddressPairs(config)
              THEN {4} ELSE {})
        \cup (IF \/ pin.direction.ty = "str" /\ Lower(pin.direction.s) \notin valid_directions
                 \/ pin.bias.ty = "str" /\ Lower(pin.bias.s) \notin valid_biases
              THEN {5} ELSE {})

\* the kinds of fault the document has
DocFaults(config) ==
    IF ~config.haspins THEN {1}
    ELSE UNION {EntryFaults(config, k) : k \in 1..Len(config.pins)}

Least(ranks) == CHOOSE r \in ranks : \A q \in ranks : r <= q

\* the first entry of the document that has a fault
FirstFaulty(config) ==
    Least({k \in 1..Len(config.pins) : EntryFaults(config, k) # {}})

\* update_config is about to validate a document that has a fault
DecidesFaulty == pc = "uc_validate" /\ DocFaults(pending) # {}

\* C32 as stated: the error reported for a document is that of the
\* earliest kind of check, in the order (a) to (e), that the document fails
\* in any entry.
C32_EarliestKindReported ==
    [][DecidesFaulty =>
          /\ Rejected(resp')
          /\ KindRank(resp'.detail.error.kind) = Least(DocFaults(pending))]_vars

\* C32: a document without a pins list is refused for that; otherwise the
\* error reported is that of the first entry, in document order, that has a
\* fault, and of the earliest kind of check, in the order (b) to (e), that
\* this entry fails.
C32_FirstFaultyEntryReported ==
    [][DecidesFaulty =>
          /\ Rejected(resp')
          /\ LET error == resp'.detail.error IN
             IF ~pending.haspins THEN error.kind = "no-pins-list"
             ELSE LET k == FirstFaulty(pending) IN
                  /\ KindRank(error.kind) = Least(EntryFaults(pending, k))
                  /\ error.kind # "duplicate-hardware" => error.pin = pending.pins[k].num
                  /\ error.kind = "duplicate-hardware" =>
                        /\ error.chip = pending.pins[k].chip
                        /\ error.line = pending.pins[k].line]_vars

\* the bad direction of entry 1 is reported for a posted document whose
\* entry 2 lacks a field
C32_Witness ==
    /\ pc = "idle"
    /\ resp # NoResp
    /\ Rejected(resp)
    /\ resp.detail.error.kind = "invalid-direction"
    /\ resp.detail.error.pin = I(1)
    /\ \A config \in env.posts :
          (config.haspins /\ 5 \in DocFaults(config)
           /\ validate_gpio_config(config).kind = "invalid-direction")
              => 2 \in EntryFaults(config, 2)
    /\ \E config \in env.posts : validate_gpio_config(config).kind = "invalid-direction"

\* ----------------------------------------------------------------- C33
\* update_config is running, from the validation to its answer
UpdateRunning ==
    \/ pc \in {"uc_validate", "uc_write", "uc_release", "uc_init", "uc_restart"}
    \/ pc = "init" /\ init_ret = "reload"

\* C33: no step of update_config, whether it ends in a reload or in a
\* refusal, changes the event queue or the stats history; and get_events
\* returns the whole queue in order whatever the registry holds, so events
\* of pins the new configuration lacks are returned too.
C33_ReloadKeepsQueueAndHistory ==
    /\ [][(UpdateRunning \/ UpdateRunning') =>
             UNCHANGED <<event_queue, stats_history, accepted, drained>>]_vars
    /\ [][DrainStep =>
             /\ resp'.events = event_queue
             /\ UNCHANGED <<stats_history, registryVars>>]_vars

\* after a hot reload to a configuration without pin 2, get_events has
\* returned an event of pin 2 and the history still holds a sample
C33_Witness ==
    /\ reloads = 1
    /\ pc = "idle"
    /\ resp # NoResp
    /\ resp.op = "get_events"
    /\ Len(resp.events) = 1
    /\ resp.events[1].pin = I(2)
    /\ I(2) \notin DOMAIN pin_mapping
    /\ I(1) \in DOMAIN pin_mapping
    /\ Len(stats_history) = 1

\* ----------------------------------------------------------------- C34
\* the workers of this kind that can still make a sweep or take a sample:
\* not ended, and no cancellation requested
CanStillRun(kind) ==
    {t \in 1..Len(tasks) : tasks[t].kind = kind /\ ~Done(t) /\ ~tasks[t].cancel}

\* C34: at most one edge monitor and at most one stats collector can still
\* run, and it is the one under the stored handle; when a handle is
\* replaced the task it referred to has ended or is cancelled; and a
\* cancelled worker ends at its next step without a sweep or a sample.
C34_OneInstancePerWorker ==
    /\ [](\A kind \in {"interrupt", "stats"} :
             /\ Cardinality(CanStillRun(kind)) <= 1
             /\ CanStillRun(kind) \subseteq {HandleOf(kind)})
    /\ [][\A kind \in {"interrupt", "stats"} :
             /\ (HandleOf(kind)' # HandleOf(kind) /\ HandleOf(kind) # NoTask) =>
                    (Done(HandleOf(kind)) \/ tasks[HandleOf(kind)].cancel)
             /\ \A t \in 1..Len(tasks) :
                    (tasks[t].kind = kind /\ tasks[t].cancel /\ ~Done(t)
                     /\ tasks'[t] # tasks[t]) =>
                        /\ Done(t)'
                        /\ UNCHANGED <<swept, clock, sampled, stats_history>>]_vars

\* after a relaunch by the supervisor and a hot reload, the cancelled edge
\* monitor has not ended yet and the new one is stored
C34_Witness ==
    /\ pc = "idle"
    /\ reloads = 1
    /\ restarts = 1
    /\ interrupt_task # NoTask
    /\ CanStillRun("interrupt") = {interrupt_task}
    /\ CanStillRun("stats") = {stats_task}
    /\ \E t \in 1..Len(tasks) :
          tasks[t].kind = "interrupt" /\ tasks[t].cancel /\ ~Done(t)
    /\ \E t \in 1..Len(tasks) : tasks[t].result = "exception"

\* ----------------------------------------------------------------- C35
\* update_config answers that writing the file failed
WriteFailed(r) ==
    /\ r.op = "update_config"
    /\ r.status = 500
    /\ r.detail.error.exc = "OSError"

\* C35: when update_config answers that writing the file failed, the
\* registry, the claimed-line table, every request and its value, the tasks
\* and the edge monitor handle are what they were when the handler was
\* entered: no line was released and the monitor was neither cancelled nor
\* replaced.
C35_WriteFailureKeepsLines ==
    [][(resp = NoResp /\ resp' # NoResp /\ WriteFailed(resp')) =>
          /\ line_requests' = entry.line_requests
          /\ pin_mapping' = entry.pin_mapping
          /\ reverse_pin_mapping' = entry.reverse_pin_mapping
          /\ reqs' = entry.reqs
          /\ tasks' = entry.tasks
          /\ interrupt_task' = entry.interrupt_task
          /\ reloads' = reloads]_vars

\* the write of a valid document has failed on a board with a claimed line
\* that is switched on and an edge monitor that runs
C35_Witness ==
    /\ pc = "idle"
    /\ resp # NoResp
    /\ WriteFailed(resp)
    /\ reloads = 1
    /\ \E h \in LiveRequests : Live(h) /\ reqs[h].val = 1
    /\ IsTask(interrupt_task, "interrupt")
    /\ ~tasks[interrupt_task].cancel

\* ----------------------------------------------------------------- C36
\* init_gpios of a hot reload has returned and update_config has not given
\* the client's answer to the transport yet
ReloadDone ==
    \/ pc = "uc_restart"
    \/ pc = "idle" /\ resp # NoResp /\ resp.op = "update_config" /\ resp.status = 200

\* C36: when the init_gpios of a hot reload has returned, every request of
\* the claimed-line table that is an output is held and at 0, and
\* get_status reports 0 for every output pin it reports active.
C36_ReloadResetsOutputs ==
    ReloadDone =>
        /\ \A h \in LiveRequests :
              reqs[h].dir = "output" => (Live(h) /\ reqs[h].val = 0)
        /\ get_status.status = 200 =>
              \A k \in 1..Len(get_status.pins) :
                  LET item == get_status.pins[k] IN
                  (item.active /\ item.pin_cfg.direction = S("output")) =>
                      item.current_state = 0

\* a hot reload to the configuration already in force has claimed again an
\* output that was switched on when update_config was entered
C36_Witness ==
    /\ pc = "uc_restart"
    /\ entry.config.status = 200
    /\ entry.config.config = pending
    /\ \E h \in 1..Len(entry.reqs), g \in LiveRequests :
          /\ entry.reqs[h].released = 0
          /\ entry.reqs[h].dir = "output"
          /\ entry.reqs[h].val = 1
          /\ reqs[g].key = entry.reqs[h].key
          /\ reqs[g].dir = "output"
          /\ g # h

\* ----------------------------------------------------------------- C37
\* the shutdown has cancelled the background tasks
ShuttingDown == pc \in {"sd_wait", "stopped"}

\* C37: from the moment the shutdown has cancelled the tasks, the
\* supervisor is cancelled or has ended, no task is created and no handle
\* or relaunch count changes; when the shutdown has completed the tasks
\* under the three handles have ended, and no task changes afterwards.
C37_NoRelaunchAfterShutdown ==
    /\ [](ShuttingDown =>
             /\ task_monitor_task # NoTask
             /\ Done(task_monitor_task) \/ tasks[task_monitor_task].cancel)
    /\ [](pc = "stopped" =>
             \A t \in ShutdownTasks : t # NoTask /\ Done(t))
    /\ [][ShuttingDown =>
             /\ ShuttingDown'
             /\ Len(tasks') = Len(tasks)
             /\ UNCHANGED <<interrupt_task, stats_task, task_monitor_task, restarts>>
             /\ pc = "stopped" => tasks' = tasks]_vars

\* the shutdown has completed with a worker that had crashed and was never
\* relaunched: the supervisor was cancelled before its next check
C37_Witness ==
    /\ pc = "stopped"
    /\ restarts = 0
    /\ \E t \in {interrupt_task, stats_task} : tasks[t].result = "exception"
    /\ Done(task_monitor_task)
    /\ tasks[task_monitor_task].cancel
    /\ Len(tasks) = 3

====
